---- MODULE Spec2Model ----
(***************************************************************************)
(* Model of qmoji's policy engine (policy.ts): the custom / default rule   *)
(* sets, the persisted policy file, and the operations of the object       *)
(* returned by createPolicyManager.                                        *)
(*                                                                         *)
(* JavaScript values are encoded as follows.                               *)
(*   - an optional value (x?: T) is a set with at most one element:        *)
(*     {} is undefined, {v} is the value v;                                *)
(*   - a permission value is one of the strings of PermVals: "true" and    *)
(*     "false" are the two booleans, "1" is a truthy non-boolean and       *)
(*     "undefined" a missing entry;                                        *)
(*   - the outcome of an async evaluation is "true", "false" or "throw"   *)
(*     (the promise rejects).                                              *)
(* The variable pending is the isAllowed call that is suspended at an      *)
(* await, with the array its pickRule loop walks and the position in it.   *)
(* The bot (index.ts) adds the image table, the cache of group-admin       *)
(* lookups and the configuration; a word of a chat message is a sequence   *)
(* of one-character strings.                                               *)
(***************************************************************************)
EXTENDS Integers, Sequences, FiniteSets, TLC

VARIABLES custom, defaults, file, clock, nextId, calls, last, pending,
          images, groupAdminCache, config, allowlist, handled, disk, proc

vars == <<custom, defaults, file, clock, nextId, calls, last, pending,
          images, groupAdminCache, config, allowlist, handled,
                   disk, proc>>

(***************************************************************************)
(* Bounds of the model.                                                    *)
(***************************************************************************)
\* number of mutating calls (add, set, update, remove) on the manager, or
\* of messages the bot handles, in a run
MaxCalls == 2

\* how far the clock of the group-admin cache runs, in negative lifetimes
MaxTicks == 4

(***************************************************************************)
(* Vocabulary.                                                             *)
(***************************************************************************)
PermissionScope == {"global", "group", "personal"}

PermissionAction == {"read", "create", "remove"}

PermVals == {"true", "false", "1", "undefined"}

\* JavaScript's Boolean(v)
Boolean(v) == v \in {"true", "1"}

\* a TLA+ boolean as a JavaScript boolean
JsBool(b) == IF b THEN "true" ELSE "false"

\* x ?? y
Nullish(x, y) == IF x = {} THEN y ELSE CHOOSE v \in x : TRUE

\* truthiness of an optional string: undefined and '' are falsy
TruthyStr(x) == x # {} /\ x # {""}

\* Number.prototype.toString() on the ids the model uses
toString(n) ==
    CASE n = 1 -> "1"
      [] n = 2 -> "2"
      [] n = 3 -> "3"
      [] n = 100 -> "100"
      [] n = 200 -> "200"
      [] OTHER -> "NaN"

Sel(t, v) == [type |-> t, value |-> v]

Perms(r, c, d) == [read |-> r, create |-> c, remove |-> d]

Rule(i, sc, se, pe, pr, ca) ==
    [id |-> i, scope |-> sc, selector |-> se, permissions |-> pe,
     priority |-> pr, createdAt |-> ca]

(***************************************************************************)
(* Pure helpers of policy.ts.                                              *)
(***************************************************************************)
\* sortRules ordering the lowest priority first
RuleBefore_LowestFirst(a, b) ==
    IF a.priority = b.priority
    THEN a.createdAt > b.createdAt
    ELSE a.priority < b.priority

\* comparator of sortRules: a is placed before b
RuleBefore(a, b) ==
    IF a.priority = b.priority
    THEN a.createdAt > b.createdAt
    ELSE a.priority > b.priority

\* dedupeRules(..., 'newest') ordering the oldest first
NewerBefore_OlderFirst(a, b) == a.createdAt < b.createdAt

\* comparator of dedupeRules(..., 'newest')
NewerBefore(a, b) == a.createdAt > b.createdAt

Before(cmp, a, b) ==
    IF cmp = "createdAt" THEN NewerBefore(a, b) ELSE RuleBefore(a, b)

\* Array.prototype.sort is stable: an element goes after every element that
\* does not compare greater than it
InsertSorted(sorted, r, cmp) ==
    LET n == Len(sorted)
        pos == IF \E i \in 1..n : Before(cmp, r, sorted[i])
               THEN CHOOSE i \in 1..n :
                        /\ Before(cmp, r, sorted[i])
                        /\ \A j \in 1..(i - 1) : ~Before(cmp, r, sorted[j])
               ELSE n + 1
    IN  SubSeq(sorted, 1, pos - 1) \o <<r>> \o SubSeq(sorted, pos, n)

RECURSIVE StableSort(_, _, _)
StableSort(rules, acc, cmp) ==
    IF rules = <<>> THEN acc
    ELSE StableSort(Tail(rules), InsertSorted(acc, Head(rules), cmp), cmp)

sortRules(rules) == StableSort(rules, <<>>, "priority")

ruleKey(scope, selector) ==
    <<scope, selector.type, Nullish(selector.value, "")>>

\* selectorsEqual comparing the values without ?? ''
selectorsEqual_NoDefault(a, b) == a.type = b.type /\ a.value = b.value

selectorsEqual(a, b) ==
    a.type = b.type /\ Nullish(a.value, "") = Nullish(b.value, "")

RECURSIVE KeepFirstOfKey(_, _, _)
KeepFirstOfKey(ordered, seen, result) ==
    IF ordered = <<>> THEN result
    ELSE LET rule == Head(ordered)
             key == ruleKey(rule.scope, rule.selector)
         IN  IF key \in seen
             THEN KeepFirstOfKey(Tail(ordered), seen, result)
             ELSE KeepFirstOfKey(Tail(ordered), seen \cup {key},
                                 Append(result, rule))

dedupeRules(rules, keep) ==
    LET ordered == IF keep = "newest"
                   THEN StableSort(rules, <<>>, "createdAt")
                   ELSE sortRules(rules)
    IN  KeepFirstOfKey(ordered, {}, <<>>)

defaultPermissionTemplates ==
    [global |-> Perms("true", "true", "false"),
     group |-> Perms("true", "true", "true"),
     personal |-> Perms("true", "true", "true")]

sanitizePermissions(permissions) ==
    [read |-> JsBool(Boolean(permissions.read)),
     create |-> JsBool(Boolean(permissions.create)),
     remove |-> JsBool(Boolean(permissions.remove))]

\* actor.isGroupAdmin(groupId): the injected predicate is absent, rejects, or
\* answers from the set of groups the actor administers
CallIsGroupAdmin(actor, groupId) ==
    IF actor.isGroupAdmin.kind = "throws" THEN "throw"
    ELSE JsBool(groupId \in actor.isGroupAdmin.groups)

\* matchesSelector whose default case matches
matchesSelector_FailOpen(selector, actor, target) ==
    CASE selector.type = "admin" -> JsBool(actor.isAdmin)
      [] selector.type \in {"allowlist_user", "everyone"} ->
            JsBool(actor.isAllowlistUser \/ actor.isAllowlistGroup)
      [] selector.type = "user" ->
            JsBool(selector.value # {}
                   /\ {toString(actor.userId)} = selector.value)
      [] selector.type = "group" ->
            JsBool(TruthyStr(selector.value) /\ TruthyStr(target.groupId)
                   /\ target.groupId = selector.value)
      [] selector.type = "groupadmin" ->
            IF actor.isGroupAdmin.kind = "absent" THEN "false"
            ELSE LET groupId == IF selector.value # {} THEN selector.value
                                ELSE target.groupId
                 IN  IF TruthyStr(groupId)
                     THEN CallIsGroupAdmin(actor, CHOOSE g \in groupId : TRUE)
                     ELSE "false"
      [] selector.type = "owner" ->
            JsBool(TruthyStr(target.ownerId)
                   /\ target.ownerId = {toString(actor.userId)})
      [] selector.type = "group_member" ->
            JsBool(TruthyStr(target.groupId) /\ actor.groupId # {}
                   /\ target.groupId
                        = {toString(CHOOSE g \in actor.groupId : TRUE)})
      [] OTHER -> "true"

matchesSelector(selector, actor, target) ==
    CASE selector.type = "admin" -> JsBool(actor.isAdmin)
      [] selector.type \in {"allowlist_user", "everyone"} ->
            JsBool(actor.isAllowlistUser \/ actor.isAllowlistGroup)
      [] selector.type = "user" ->
            JsBool(selector.value # {}
                   /\ {toString(actor.userId)} = selector.value)
      [] selector.type = "group" ->
            JsBool(TruthyStr(selector.value) /\ TruthyStr(target.groupId)
                   /\ target.groupId = selector.value)
      [] selector.type = "groupadmin" ->
            IF actor.isGroupAdmin.kind = "absent" THEN "false"
            ELSE LET groupId == IF selector.value # {} THEN selector.value
                                ELSE target.groupId
                 IN  IF TruthyStr(groupId)
                     THEN CallIsGroupAdmin(actor, CHOOSE g \in groupId : TRUE)
                     ELSE "false"
      [] selector.type = "owner" ->
            JsBool(TruthyStr(target.ownerId)
                   /\ target.ownerId = {toString(actor.userId)})
      [] selector.type = "group_member" ->
            JsBool(TruthyStr(target.groupId) /\ actor.groupId # {}
                   /\ target.groupId
                        = {toString(CHOOSE g \in actor.groupId : TRUE)})
      [] OTHER -> "false"

\* the for-loop of pickRule over the sorted candidates
RECURSIVE ScanRules(_, _, _)
ScanRules(sorted, actor, target) ==
    IF sorted = <<>> THEN [kind |-> "null"]
    ELSE LET m == matchesSelector(Head(sorted).selector, actor, target)
         IN  CASE m = "throw" -> [kind |-> "throw"]
               [] m = "true" -> [kind |-> "rule", rule |-> Head(sorted)]
               [] OTHER -> ScanRules(Tail(sorted), actor, target)

pickRule(rules, actor, target) ==
    LET scopedRules == SelectSeq(rules, LAMBDA rule : rule.scope = target.scope)
    IN  IF scopedRules = <<>> THEN [kind |-> "null"]
        ELSE ScanRules(sortRules(scopedRules), actor, target)

isAllowed(cust, defs, actor, target, action) ==
    LET rule == pickRule(cust, actor, target)
    IN  CASE rule.kind = "throw" -> "throw"
          [] rule.kind = "rule" -> JsBool(Boolean(rule.rule.permissions[action]))
          [] OTHER ->
               LET fallback == pickRule(defs, actor, target)
               IN  CASE fallback.kind = "throw" -> "throw"
                     [] fallback.kind = "rule" ->
                          JsBool(Boolean(fallback.rule.permissions[action]))
                     [] OTHER -> "false"

(***************************************************************************)
(* The policy file.  Its content is absent, unparsable text, a JSON object *)
(* without the custom key, a JSON object whose custom value is not an      *)
(* array (kind badcustom, {"custom": 5}), or a JSON object                 *)
(* {custom: [...]}.  A JSON                                                *)
(* object is a function from the keys it has to their values: a key whose  *)
(* value is undefined is not written by JSON.stringify, and reading a key  *)
(* that a parsed object lacks gives undefined.                             *)
(***************************************************************************)
FileOf(kind, json) == [kind |-> kind, custom |-> json]

\* JSON.stringify writing '' for a selector without value
stringifySelector_EmptyValue(selector) ==
    [type |-> selector.type, value |-> Nullish(selector.value, "")]

\* JSON.stringify of a selector
stringifySelector(selector) ==
    IF selector.value = {} THEN [type |-> selector.type]
    ELSE [type |-> selector.type,
          value |-> CHOOSE v \in selector.value : TRUE]

\* JSON.stringify writing every permission as a boolean
stringifyPermissions_Booleans(permissions) ==
    sanitizePermissions(permissions)

\* JSON.stringify of a permission map
stringifyPermissions(permissions) ==
    [action \in {a \in PermissionAction : permissions[a] # "undefined"} |->
        permissions[action]]

\* JSON.stringify of the custom list
stringify(rules) ==
    [k \in 1..Len(rules) |->
        [id |-> rules[k].id,
         scope |-> rules[k].scope,
         selector |-> stringifySelector(rules[k].selector),
         permissions |-> stringifyPermissions(rules[k].permissions),
         priority |-> rules[k].priority,
         createdAt |-> rules[k].createdAt]]

\* the rules read from the parsed custom list
parse(json) ==
    [k \in 1..Len(json) |->
        Rule(json[k].id, json[k].scope,
             Sel(json[k].selector.type,
                 IF "value" \in DOMAIN json[k].selector
                 THEN {json[k].selector.value} ELSE {}),
             [action \in PermissionAction |->
                 IF action \in DOMAIN json[k].permissions
                 THEN json[k].permissions[action] ELSE "undefined"],
             json[k].priority, json[k].createdAt)]

\* saveStorage writing the default rules after the custom rules
saveStorage_WithDefaults(rules) ==
    FileOf("json", stringify(rules \o defaults))

\* JSON.stringify(storage) written by writeFileSync
saveStorage(rules) == FileOf("json", stringify(rules))

ensureFile(f) == IF f.kind = "absent" THEN saveStorage(<<>>) ELSE f

\* the custom list loadStorage returns for the file content f
loadStorage(f) ==
    LET g == ensureFile(f)
    IN  IF g.kind = "json" THEN parse(g.custom) ELSE <<>>

(***************************************************************************)
(* Inputs.                                                                 *)
(***************************************************************************)
Everyone == Sel("everyone", {})

GroupAdminOf(v) == Sel("groupadmin", v)

P1 == Perms("false", "true", "false")

\* permissions that are not strict booleans
P2 == Perms("1", "undefined", "true")

\* the rules addCustomRule is called with
AddInputs ==
    {[scope |-> "group", selector |-> Everyone, permissions |-> P1,
      priority |-> {}],
     [scope |-> "group", selector |-> Everyone, permissions |-> P2,
      priority |-> {0}],
     [scope |-> "group", selector |-> GroupAdminOf({}), permissions |-> P2,
      priority |-> {-1}],
     [scope |-> "global", selector |-> Everyone, permissions |-> P2,
      priority |-> {}]}

\* the arguments setRulePermissions is called with
SetInputs ==
    {[scope |-> "group", selector |-> Everyone, priority |-> {},
      permissions |-> P1],
     [scope |-> "group", selector |-> GroupAdminOf({}), priority |-> {},
      permissions |-> P2],
     [scope |-> "group", selector |-> GroupAdminOf({}), priority |-> {-1},
      permissions |-> P1],
     [scope |-> "global", selector |-> Everyone, priority |-> {},
      permissions |-> P1]}

\* the arguments updateSinglePermission is called with
SingleInputs ==
    {[scope |-> "group", selector |-> Everyone, priority |-> {},
      action |-> "read", value |-> "false"],
     [scope |-> "group", selector |-> Everyone, priority |-> {0},
      action |-> "remove", value |-> "false"],
     [scope |-> "group", selector |-> GroupAdminOf({}), priority |-> {},
      action |-> "create", value |-> "false"],
     [scope |-> "group", selector |-> GroupAdminOf({}), priority |-> {-1},
      action |-> "remove", value |-> "true"],
     [scope |-> "global", selector |-> Everyone, priority |-> {},
      action |-> "read", value |-> "false"]}

\* the arguments removeRules is called with
RemoveInputs ==
    {[scope |-> {"group"}, selector |-> {}, priority |-> {},
      removeAll |-> FALSE],
     [scope |-> {}, selector |-> {}, priority |-> {}, removeAll |-> TRUE],
     [scope |-> {"group"}, selector |-> {GroupAdminOf({})}, priority |-> {},
      removeAll |-> TRUE],
     [scope |-> {}, selector |-> {}, priority |-> {0}, removeAll |-> TRUE],
     [scope |-> {}, selector |-> {}, priority |-> {}, removeAll |-> FALSE]}

\* defaultPolicyRules of index.ts
BuiltinDefaults ==
    <<Rule(-1, "global", Everyone, Perms("true", "true", "false"), 0, 0),
      Rule(-2, "group", Everyone, Perms("true", "true", "true"), 0, 0),
      Rule(-3, "personal", Everyone, Perms("true", "true", "true"), 0, 0)>>

\* another defaultRules option: high priorities and a repeated identity
HighDefaults ==
    <<Rule(-4, "group", Everyone, Perms("true", "true", "true"), 100, 1),
      Rule(-5, "group", Everyone, Perms("false", "false", "false"), 0, 0),
      Rule(-6, "group", Sel("group", {"100"}),
           Perms("true", "false", "false"), 10, 0)>>

DefaultRuleInputs == {BuiltinDefaults, HighDefaults}

\* policy files found at start-up
LegacyFile ==
    FileOf("json",
        <<[id |-> 21, scope |-> "group", selector |-> [type |-> "everyone"],
           permissions |->
               [read |-> "true", create |-> "true", remove |-> "false"],
           priority |-> -1, createdAt |-> 0],
          [id |-> 22, scope |-> "group", selector |-> [type |-> "everyone"],
           permissions |-> [read |-> "1", remove |-> "false"],
           priority |-> 5, createdAt |-> 1],
          [id |-> 23, scope |-> "group",
           selector |-> [type |-> "groupadmin", value |-> ""],
           permissions |->
               [read |-> "true", create |-> "false", remove |-> "true"],
           priority |-> 5, createdAt |-> 1]>>)

FileInputs ==
    {FileOf("absent", <<>>), FileOf("garbage", <<>>),
     FileOf("nocustom", <<>>), FileOf("badcustom", <<>>), LegacyFile}

Actors ==
    {[userId |-> u, groupId |-> g, isAdmin |-> FALSE,
      isAllowlistUser |-> al, isAllowlistGroup |-> FALSE,
      isGroupAdmin |-> ga] :
        u \in {1, 2}, g \in {{}, {100}}, al \in BOOLEAN,
        ga \in {[kind |-> "absent", groups |-> {}],
                [kind |-> "fn", groups |-> {}],
                [kind |-> "fn", groups |-> {"100"}],
                [kind |-> "throws", groups |-> {}]}}

Targets ==
    {[scope |-> "global", ownerId |-> {}, groupId |-> {}],
     [scope |-> "group", ownerId |-> {}, groupId |-> {"100"}],
     [scope |-> "group", ownerId |-> {}, groupId |-> {"200"}],
     [scope |-> "personal", ownerId |-> {"1"}, groupId |-> {}],
     [scope |-> "personal", ownerId |-> {"2"}, groupId |-> {}]}

Actor(u, g, al, ga) ==
    [userId |-> u, groupId |-> g, isAdmin |-> FALSE, isAllowlistUser |-> al,
     isAllowlistGroup |-> FALSE, isGroupAdmin |-> ga]

Target(sc, o, g) == [scope |-> sc, ownerId |-> o, groupId |-> g]

\* the evaluations a client asks for
QueryInputs ==
    {[actor |-> Actor(1, {100}, TRUE, [kind |-> "throws", groups |-> {}]),
      target |-> Target("group", {}, {"100"}), action |-> "read"],
     [actor |-> Actor(1, {}, TRUE, [kind |-> "fn", groups |-> {}]),
      target |-> Target("personal", {"1"}, {}), action |-> "create"]}

\* values Date.now() can return at the next call
Now == {clock, clock + 1}

(***************************************************************************)
(* createPolicyManager                                                     *)
(***************************************************************************)
\* the custom list kept in memory after construction from file f
LoadedCustom(f) == dedupeRules(loadStorage(f), "newest")

\* the file after construction from file f
LoadedFile(f) ==
    IF Len(LoadedCustom(f)) # Len(loadStorage(f))
    THEN saveStorage(LoadedCustom(f))
    ELSE ensureFile(f)

\* loadStorage returns the parsed object as it is when its custom value is
\* truthy; dedupeRules(storage.custom, 'newest') then spreads a value that is
\* not iterable and createPolicyManager throws
ConstructionThrows(f) == f.kind = "badcustom"

\* a manager exists: the last construction did not throw
ManagerExists == ~(last.op = "createPolicyManager" /\ last.threw)

\* JSON.stringify(allowlist): the text written to the allowlist file
stringifyAllowlist(a) ==
    [kind |-> "json", users |-> a.users, groups |-> a.groups]

\* the data directory: the allowlist file and the image files
Disk(a, files) == [allowlist |-> stringifyAllowlist(a), files |-> files]

\* the process before any SIGINT: the socket to napcat is open, no timer is
\* set, the database is open and the process has not exited
Running ==
    [shutdownInitiated |-> FALSE, initiatedAt |-> -1, socket |-> "open",
     timer |-> -1, timedOut |-> FALSE, awaiting |-> FALSE, db |-> "open",
     exit |-> {}]

Init ==
    \E f \in FileInputs, defaultRules \in DefaultRuleInputs :
        /\ defaults = IF ConstructionThrows(f) THEN <<>>
                      ELSE dedupeRules(defaultRules, "oldest")
        /\ custom = IF ConstructionThrows(f) THEN <<>> ELSE LoadedCustom(f)
        /\ file = IF ConstructionThrows(f) THEN f ELSE LoadedFile(f)
        /\ clock = 1
        /\ nextId = 1
        /\ calls = 0
        /\ last = [op |-> "createPolicyManager", found |-> f,
                   defaultRules |-> defaultRules,
                   threw |-> ConstructionThrows(f)]
        /\ pending = [phase |-> "idle"]
        /\ images = <<>>
        /\ groupAdminCache = <<>>
        /\ config = [enablePolicyAuth |-> TRUE, admins |-> {}]
        /\ allowlist = [users |-> {}, groups |-> {}]
        /\ handled = [op |-> "none"]
        /\ disk = Disk(allowlist, {})
        /\ proc = Running

\* the process restarts and builds a new manager from the file
createPolicyManager ==
    /\ custom' = IF ConstructionThrows(file) THEN <<>> ELSE LoadedCustom(file)
    /\ file' = IF ConstructionThrows(file) THEN file ELSE LoadedFile(file)
    /\ last' = [op |-> "createPolicyManager", found |-> file,
                threw |-> ConstructionThrows(file)]
    /\ UNCHANGED <<defaults, clock, nextId, calls, pending,
                   images, groupAdminCache, config, allowlist, handled,
                   disk, proc>>

\* resolvePriority without the default-priority map
resolvePriority_AlwaysZero(scope, selector) == 0

\* defaultPriorityMap.get(key), 0 when the key is not in the map
resolvePriority(scope, selector) ==
    LET hits == {i \in 1..Len(defaults) :
                    ruleKey(defaults[i].scope, defaults[i].selector)
                        = ruleKey(scope, selector)}
    IN  IF hits = {} THEN 0
        ELSE defaults[CHOOSE i \in hits : \A j \in hits : j <= i].priority

(***************************************************************************)
(* addCustomRule                                                           *)
(***************************************************************************)
\* addCustomRule taking an omitted priority from the rule it replaces
AddedRule_MergesOld(rule, now) ==
    LET old == {i \in 1..Len(custom) :
                   ruleKey(custom[i].scope, custom[i].selector)
                       = ruleKey(rule.scope, rule.selector)}
    IN  Rule(nextId, rule.scope, rule.selector, rule.permissions,
             Nullish(rule.priority,
                     IF old # {} THEN custom[CHOOSE i \in old : TRUE].priority
                     ELSE resolvePriority(rule.scope, rule.selector)),
             now)

\* the rule object addCustomRule builds
AddedRule(rule, now) ==
    Rule(nextId, rule.scope, rule.selector, rule.permissions,
         Nullish(rule.priority, resolvePriority(rule.scope, rule.selector)),
         now)

\* storage.custom.filter(existing => ruleKey(existing) !== key)
WithoutKey(key) ==
    SelectSeq(custom,
        LAMBDA existing : ruleKey(existing.scope, existing.selector) # key)

addCustomRule(rule, now) ==
    LET newRule == AddedRule(rule, now)
        kept == WithoutKey(ruleKey(newRule.scope, newRule.selector))
    IN  /\ ManagerExists
        /\ calls < MaxCalls
        /\ calls' = calls + 1
        /\ custom' = Append(kept, newRule)
        /\ file' = saveStorage(custom')
        /\ clock' = now
        /\ nextId' = nextId + 1
        /\ last' = [op |-> "addCustomRule", arg |-> rule, ret |-> newRule,
                    replaced |-> Len(kept) # Len(custom),
                    replacedPriority |->
                        {custom[i].priority : i \in
                            {j \in 1..Len(custom) :
                                ruleKey(custom[j].scope, custom[j].selector)
                                    = ruleKey(newRule.scope, newRule.selector)}}]
        /\ UNCHANGED <<defaults, pending>>

(***************************************************************************)
(* updateRule, setRulePermissions, updateSinglePermission                  *)
(***************************************************************************)
\* storage.custom.findIndex(...): 0 stands for -1
findIndex(scope, selector) ==
    LET hits == {i \in 1..Len(custom) :
                    /\ custom[i].scope = scope
                    /\ selectorsEqual(custom[i].selector, selector)}
    IN  IF hits = {} THEN 0 ELSE CHOOSE i \in hits : \A j \in hits : i <= j

\* a single-permission mutator that starts from all-true permissions
ApplyMutator_FromAllTrue(mutator, current) ==
    IF mutator.kind = "set" THEN mutator.permissions
    ELSE [a \in DOMAIN current \cup {mutator.action} |->
              IF a = mutator.action THEN mutator.value ELSE "true"]

\* the two mutators handed to updateRule
ApplyMutator(mutator, current) ==
    IF mutator.kind = "set" THEN mutator.permissions
    ELSE [a \in DOMAIN current \cup {mutator.action} |->
              IF a = mutator.action THEN mutator.value ELSE current[a]]

\* updateRule leaving createdAt as it was
UpdatedRule_StaleCreatedAt(existing, updatedPermissions, targetPriority, now) ==
    [existing EXCEPT !.permissions = updatedPermissions,
                     !.priority = targetPriority]

\* {...existing, permissions, priority, createdAt: Date.now()}
UpdatedRule(existing, updatedPermissions, targetPriority, now) ==
    [existing EXCEPT !.permissions = updatedPermissions,
                     !.priority = targetPriority,
                     !.createdAt = now]

\* targetPriority never taken from the existing rule
targetPriority_IgnoresExisting(priority, index, scope, selector) ==
    Nullish(priority, resolvePriority(scope, selector))

\* priority ?? (index >= 0 ? storage.custom[index].priority
\*                          : resolvePriority(scope, selector))
targetPriority(priority, index, scope, selector) ==
    Nullish(priority,
            IF index > 0 THEN custom[index].priority
            ELSE resolvePriority(scope, selector))

updateRule(op, scope, selector, priority, mutator, now) ==
    LET index == findIndex(scope, selector)
        basePermissions == IF index > 0 THEN custom[index].permissions
                           ELSE defaultPermissionTemplates[scope]
        updatedPermissions ==
            sanitizePermissions(ApplyMutator(mutator, basePermissions))
        updatedRule == UpdatedRule(custom[index], updatedPermissions,
                                   targetPriority(priority, index, scope,
                                                  selector), now)
        newRule == Rule(nextId, scope, selector, updatedPermissions,
                        targetPriority(priority, index, scope, selector),
                        now)
    IN  /\ ManagerExists
        /\ calls < MaxCalls
        /\ calls' = calls + 1
        /\ custom' = IF index > 0
                     THEN [custom EXCEPT ![index] = updatedRule]
                     ELSE Append(custom, newRule)
        /\ file' = saveStorage(custom')
        /\ clock' = now
        /\ nextId' = IF index > 0 THEN nextId ELSE nextId + 1
        /\ last' = [op |-> op, scope |-> scope, selector |-> selector,
                    priority |-> priority, mutator |-> mutator,
                    rule |-> IF index > 0 THEN updatedRule ELSE newRule,
                    created |-> (index = 0)]
        /\ UNCHANGED <<defaults, pending>>

setRulePermissions(scope, selector, priority, permissions, now) ==
    updateRule("setRulePermissions", scope, selector, priority,
               [kind |-> "set", permissions |-> permissions], now)

updateSinglePermission(scope, selector, priority, action, value, now) ==
    updateRule("updateSinglePermission", scope, selector, priority,
               [kind |-> "single", action |-> action, value |-> value], now)

(***************************************************************************)
(* removeRules                                                             *)
(***************************************************************************)
\* indices of seq s in the order of a stable sort by createdAt descending
RECURSIVE IndicesByRecency(_, _)
IndicesByRecency(idxs, acc) ==
    IF idxs = <<>> THEN acc
    ELSE LET i == Head(idxs)
             n == Len(acc)
             pos == IF \E k \in 1..n :
                          custom[i].createdAt > custom[acc[k]].createdAt
                    THEN CHOOSE k \in 1..n :
                          /\ custom[i].createdAt > custom[acc[k]].createdAt
                          /\ \A j \in 1..(k - 1) :
                               ~(custom[i].createdAt > custom[acc[j]].createdAt)
                    ELSE n + 1
         IN  IndicesByRecency(Tail(idxs),
                 SubSeq(acc, 1, pos - 1) \o <<i>> \o SubSeq(acc, pos, n))

\* the indices of a set in descending order
RECURSIVE Descending(_)
Descending(S) ==
    IF S = {} THEN <<>>
    ELSE LET m == CHOOSE x \in S : \A y \in S : y <= x
         IN  <<m>> \o Descending(S \ {m})

\* the filter of removeRules testing the priority for truthiness
MatchesFilters_ZeroMatchesAll(rule, scope, selector, priority) ==
    /\ scope # {} => {rule.scope} = scope
    /\ selector # {} => \A s \in selector : selectorsEqual(rule.selector, s)
    /\ (priority # {} /\ priority # {0}) => {rule.priority} = priority

\* the filter of removeRules: an omitted scope, selector or priority matches
MatchesFilters(rule, scope, selector, priority) ==
    /\ scope # {} => {rule.scope} = scope
    /\ selector # {} => \A s \in selector : selectorsEqual(rule.selector, s)
    /\ priority # {} => {rule.priority} = priority

\* removeRules taking the last of the sorted matches
RemovalTarget_Oldest(sorted, removeAll) ==
    IF removeAll \/ sorted = <<>> THEN sorted ELSE <<sorted[Len(sorted)]>>

\* removeAll ? sorted : sorted.slice(0, 1)
RemovalTarget(sorted, removeAll) ==
    IF removeAll \/ sorted = <<>> THEN sorted ELSE <<sorted[1]>>

removeRules(scope, selector, priority, removeAll) ==
    LET matchIdx == SelectSeq([i \in 1..Len(custom) |-> i],
                        LAMBDA i : MatchesFilters(custom[i], scope, selector,
                                                  priority))
        sorted == IndicesByRecency(matchIdx, <<>>)
        target == RemovalTarget(sorted, removeAll)
        indices == Descending({target[k] : k \in 1..Len(target)})
        removedRules == [k \in 1..Len(indices) |-> custom[indices[k]]]
        remaining == SelectSeq([i \in 1..Len(custom) |-> i],
                        LAMBDA i : \A k \in 1..Len(indices) : indices[k] # i)
    IN  /\ ManagerExists
        /\ calls < MaxCalls
        /\ calls' = calls + 1
        /\ custom' = IF matchIdx = <<>> THEN custom
                     ELSE [k \in 1..Len(remaining) |-> custom[remaining[k]]]
        /\ file' = IF matchIdx = <<>> THEN file ELSE saveStorage(custom')
        /\ last' = [op |-> "removeRules", scope |-> scope,
                    selector |-> selector, priority |-> priority,
                    removeAll |-> removeAll, ret |-> removedRules]
        /\ UNCHANGED <<defaults, clock, nextId, pending>>

(***************************************************************************)
(* getCustomRules, getDefaultRules, listRules.  A returned rule is three   *)
(* objects: the rule, its selector and its permissions.  For each of them  *)
(* the model records the object it is: an object of the manager (the list  *)
(* and the position of the stored rule it belongs to) or a fresh one.      *)
(***************************************************************************)
Fresh == [list |-> "fresh", index |-> 0]

\* the three objects of the rule stored at position i of a list
StoredObjects(list, i) ==
    [rule |-> [list |-> list, index |-> i],
     selector |-> [list |-> list, index |-> i],
     permissions |-> [list |-> list, index |-> i]]

\* {...rule}: a copy of the rule object that shares selector and permissions
cloneRule_Shallow(rule, objects) ==
    [value |-> rule,
     objects |-> [rule |-> Fresh, selector |-> objects.selector,
                  permissions |-> objects.permissions]]

\* {...rule, selector: {...rule.selector},
\*  permissions: {...rule.permissions}}
cloneRule(rule, objects) ==
    [value |-> rule,
     objects |-> [rule |-> Fresh, selector |-> Fresh, permissions |-> Fresh]]

cloneRules(list, rules) ==
    [i \in 1..Len(rules) |-> cloneRule(rules[i], StoredObjects(list, i))]

getCustomRules == cloneRules("custom", custom)

getDefaultRules == cloneRules("defaults", defaults)

\* sortRules(rules).map(cloneRule): the k-th rule returned is the copy of
\* the stored rule that sortRules places k-th
SortedClones(list, rules) ==
    LET sorted == sortRules(rules)
    IN  [k \in 1..Len(sorted) |->
            cloneRule(sorted[k],
                StoredObjects(list,
                    CHOOSE i \in 1..Len(rules) : rules[i].id = sorted[k].id))]

listRules ==
    [custom |-> SortedClones("custom", custom),
     defaults |-> cloneRules("defaults", defaults)]

\* what a caller writes to one of the three objects of a rule
Written(rule, part) ==
    CASE part = "rule" -> [rule EXCEPT !.priority = 99]
      [] part = "selector" -> [rule EXCEPT !.selector.type = "admin"]
      [] part = "permissions" ->
            [rule EXCEPT !.permissions.read = JsBool(~Boolean(@))]

\* the list after a write to the object: only a write to an object of the
\* list changes it
WriteThrough(name, rules, object, part) ==
    IF object.list = name
    THEN [rules EXCEPT ![object.index] = Written(@, part)]
    ELSE rules

(***************************************************************************)
(* The calls a client of the manager makes.                                *)
(***************************************************************************)
\* the rules a caller of the three getters receives
ReturnedRules ==
    UNION {{returned[k] : k \in 1..Len(returned)} :
              returned \in {getCustomRules, getDefaultRules,
                            listRules.custom, listRules.defaults}}

\* the objects a caller can write to, each with the part of the rule it is
ReturnedObjects ==
    {[object |-> r.objects[part], part |-> part] :
        r \in ReturnedRules, part \in {"rule", "selector", "permissions"}}

\* the client calls a getter and writes to a rule it returned
MutateReturned ==
    \E w \in ReturnedObjects :
        /\ ManagerExists
        /\ custom' = WriteThrough("custom", custom, w.object, w.part)
        /\ defaults' = WriteThrough("defaults", defaults, w.object, w.part)
        /\ last' = [op |-> "mutateReturned"]
        /\ UNCHANGED <<file, clock, nextId, calls, pending,
                       images, groupAdminCache, config, allowlist, handled,
                   disk, proc>>

\* the objects the caller of addCustomRule holds after the call: newRule is
\* {...rule, id, priority, createdAt}, which shares the selector and the
\* permissions passed in, and it is both pushed to storage.custom and
\* returned
AddedObjects == StoredObjects("custom", Len(custom))

\* the client writes to the rule addCustomRule returned, or to the selector
\* or the permissions it passed to it
MutateAdded ==
    \E part \in {"rule", "selector", "permissions"} :
        /\ ManagerExists
        /\ last.op = "addCustomRule"
        /\ custom' = WriteThrough("custom", custom, AddedObjects[part], part)
        /\ last' = [op |-> "mutateAdded", part |-> part]
        /\ UNCHANGED <<defaults, file, clock, nextId, calls, pending,
                       images, groupAdminCache, config, allowlist, handled,
                   disk, proc>>

IsAllowed ==
    \E q \in QueryInputs :
        /\ ManagerExists
        /\ last' = [op |-> "isAllowed", actor |-> q.actor,
                    target |-> q.target, action |-> q.action,
                    ret |-> isAllowed(custom, defaults, q.actor, q.target,
                                      q.action)]
        /\ UNCHANGED <<custom, defaults, file, clock, nextId, calls, pending,
                       images, groupAdminCache, config, allowlist, handled,
                   disk, proc>>

\* the bot's state, which the policy manager does not touch
bot == <<images, groupAdminCache, config, allowlist, handled,
                   disk, proc>>

AddCustomRule ==
    /\ \E rule \in AddInputs, now \in Now : addCustomRule(rule, now)
    /\ UNCHANGED bot

SetRulePermissions ==
    /\ \E c \in SetInputs, now \in Now :
           setRulePermissions(c.scope, c.selector, c.priority, c.permissions,
                              now)
    /\ UNCHANGED bot

UpdateSinglePermission ==
    /\ \E c \in SingleInputs, now \in Now :
           updateSinglePermission(c.scope, c.selector, c.priority, c.action,
                                  c.value, now)
    /\ UNCHANGED bot

RemoveRules ==
    /\ \E c \in RemoveInputs :
           removeRules(c.scope, c.selector, c.priority, c.removeAll)
    /\ UNCHANGED bot

Next ==
    \/ AddCustomRule
    \/ SetRulePermissions
    \/ UpdateSinglePermission
    \/ RemoveRules
    \/ IsAllowed
    \/ MutateReturned
    \/ createPolicyManager

Spec == Init /\ [][Next]_vars

\* the same client, which also writes to what it passed to addCustomRule
\* and to what addCustomRule returned
NextAliasing ==
    \/ AddCustomRule
    \/ SetRulePermissions
    \/ UpdateSinglePermission
    \/ RemoveRules
    \/ IsAllowed
    \/ MutateReturned
    \/ MutateAdded
    \/ createPolicyManager

SpecAliasing == Init /\ [][NextAliasing]_vars

(***************************************************************************)
(* isAllowed step by step.  The call runs up to its first await when it is *)
(* invoked: pickRule filters and sorts storage.custom into an array of its *)
(* own and calls matchesSelector for the first rule.  Every await is a     *)
(* point where the mutating operations of other handlers can run.          *)
(***************************************************************************)
\* the evaluations that are suspended while other handlers run
ConcurrentQueries ==
    {[actor |-> Actor(1, {100}, TRUE, [kind |-> "fn", groups |-> {"100"}]),
      target |-> Target("group", {}, {"100"}), action |-> "read"],
     [actor |-> Actor(2, {100}, FALSE, [kind |-> "fn", groups |-> {"100"}]),
      target |-> Target("group", {}, {"100"}), action |-> "remove"]}

\* the array of pickRule: sortRules of the rules of the target's scope
SortedScoped(rules, target) ==
    sortRules(SelectSeq(rules, LAMBDA rule : rule.scope = target.scope))

\* pickRule walking the stored custom rules at every resumption
LoopArray_Live(p) ==
    IF p.list = "custom" THEN SortedScoped(custom, p.target) ELSE p.sorted

\* the array the for-of loop of pickRule walks: the one built at the call
LoopArray(p) == p.sorted

\* pickRule(rules, actor, target) up to its first await
EnterPickRule(p, list, rules) ==
    LET sorted == SortedScoped(rules, p.target)
    IN  [p EXCEPT !.list = list, !.sorted = sorted, !.index = 1,
                  !.picked = {},
                  !.phase = IF sorted = <<>> THEN "awaitPick"
                            ELSE "awaitMatch"]

\* isAllowed(actor, target, action) is invoked
StartIsAllowed ==
    \E q \in ConcurrentQueries :
        /\ pending.phase = "idle"
        /\ pending' = EnterPickRule(
                          [phase |-> "idle", list |-> "custom",
                           sorted |-> <<>>, index |-> 1, picked |-> {},
                           actor |-> q.actor, target |-> q.target,
                           action |-> q.action, start |-> custom,
                           result |-> "pending"],
                          "custom", custom)
        /\ UNCHANGED <<custom, defaults, file, clock, nextId, calls, last,
                       images, groupAdminCache, config, allowlist, handled,
                   disk, proc>>

\* the call resumes after await matchesSelector(rule.selector, ...)
AfterMatch(p) ==
    LET array == LoopArray(p)
        rule == array[p.index]
        m == matchesSelector(rule.selector, p.actor, p.target)
    IN  CASE p.index > Len(array) -> [p EXCEPT !.phase = "awaitPick"]
          [] m = "throw" -> [p EXCEPT !.phase = "done", !.result = "throw"]
          [] m = "true" -> [p EXCEPT !.phase = "awaitPick", !.picked = {rule}]
          [] p.index < Len(array) -> [p EXCEPT !.index = @ + 1]
          [] OTHER -> [p EXCEPT !.phase = "awaitPick"]

\* the call resumes after await pickRule(...)
AfterPick(p) ==
    CASE p.picked # {} ->
            [p EXCEPT !.phase = "done",
                      !.result = JsBool(Boolean(
                          (CHOOSE rule \in p.picked : TRUE)
                              .permissions[p.action]))]
      [] p.list = "custom" -> EnterPickRule(p, "defaults", defaults)
      [] OTHER -> [p EXCEPT !.phase = "done", !.result = "false"]

ResumeIsAllowed ==
    /\ pending.phase \in {"awaitMatch", "awaitPick"}
    /\ pending' = IF pending.phase = "awaitMatch" THEN AfterMatch(pending)
                  ELSE AfterPick(pending)
    /\ UNCHANGED <<custom, defaults, file, clock, nextId, calls, last,
                   images, groupAdminCache, config, allowlist, handled,
                   disk, proc>>

\* a mutating operation of another handler runs: while the call is
\* pending or completed, or as the one call that precedes its invocation
Interleaved ==
    /\ pending.phase # "idle" \/ calls = 0
    /\ \/ AddCustomRule
       \/ SetRulePermissions
       \/ UpdateSinglePermission
       \/ RemoveRules

\* a manager that found rules in its file
InitConcurrent == Init /\ custom # <<>>

NextConcurrent ==
    \/ StartIsAllowed
    \/ ResumeIsAllowed
    \/ Interleaved

SpecConcurrent == InitConcurrent /\ [][NextConcurrent]_vars

(***************************************************************************)
(* The bot's parsing helpers (index.ts).  A word of a message is a         *)
(* sequence of one-character strings; Join gives the string the policy     *)
(* engine stores.                                                          *)
(***************************************************************************)
Digits == {"0", "1", "2", "3", "4", "5", "6", "7", "8", "9"}

RECURSIVE Join(_)
Join(word) == IF word = <<>> THEN "" ELSE Head(word) \o Join(Tail(word))

\* Number.prototype.toString() of a non-negative integer, as a word
RECURSIVE Numeral(_)
Numeral(n) ==
    LET digit == <<"0", "1", "2", "3", "4", "5", "6", "7", "8", "9">>
    IN  IF n < 10 THEN <<digit[n + 1]>>
        ELSE Append(Numeral(n \div 10), digit[(n % 10) + 1])

\* String.prototype.toLowerCase() on a word of ASCII characters
toLowerCase(word) ==
    LET upper == <<"A", "B", "C", "D", "E", "F", "G", "H", "I", "J", "K", "L",
                   "M", "N", "O", "P", "Q", "R", "S", "T", "U", "V", "W", "X",
                   "Y", "Z">>
        lower == <<"a", "b", "c", "d", "e", "f", "g", "h", "i", "j", "k", "l",
                   "m", "n", "o", "p", "q", "r", "s", "t", "u", "v", "w", "x",
                   "y", "z">>
        map(c) == IF \E i \in 1..26 : upper[i] = c
                  THEN lower[CHOOSE i \in 1..26 : upper[i] = c]
                  ELSE c
    IN  [i \in 1..Len(word) |-> map(word[i])]

\* parseInt(word, 10) of a word that numericRegexp accepts
RECURSIVE parseDigits(_)
parseDigits(word) ==
    IF word = <<>> THEN 0
    ELSE LET last1 == word[Len(word)]
             d == CHOOSE k \in 0..9 : Numeral(k) = <<last1>>
         IN  10 * parseDigits(SubSeq(word, 1, Len(word) - 1)) + d

parseInt(word) ==
    IF Head(word) = "-" THEN 0 - parseDigits(Tail(word)) ELSE parseDigits(word)

\* /^-?\d+$/.test(word)
numericRegexp(word) ==
    LET body == IF word # <<>> /\ Head(word) = "-" THEN Tail(word) ELSE word
    IN  body # <<>> /\ \A i \in 1..Len(body) : body[i] \in Digits

\* word.split(':', 2)
RECURSIVE split(_, _)
split(word, limit) ==
    LET colons == {i \in 1..Len(word) : word[i] = ":"}
        first == CHOOSE i \in colons : \A j \in colons : i <= j
    IN  IF limit = 0 THEN <<>>
        ELSE IF colons = {} THEN <<word>>
        ELSE <<SubSeq(word, 1, first - 1)>>
                 \o split(SubSeq(word, first + 1, Len(word)), limit - 1)

\* /^[01]{3}/.test(bits): the pattern without its end anchor
bitsToPermissions_Unanchored(bits) ==
    IF ~(Len(bits) >= 3 /\ \A i \in 1..3 : bits[i] \in {"0", "1"})
    THEN [error |-> {"bad bits"}, permissions |-> {}]
    ELSE [error |-> {},
          permissions |-> {Perms(JsBool(bits[1] = "1"), JsBool(bits[2] = "1"),
                                 JsBool(bits[3] = "1"))}]

bitsToPermissions(bits) ==
    IF ~(Len(bits) = 3 /\ \A i \in 1..3 : bits[i] \in {"0", "1"})
    THEN [error |-> {"bad bits"}, permissions |-> {}]
    ELSE [error |-> {},
          permissions |-> {Perms(JsBool(bits[1] = "1"), JsBool(bits[2] = "1"),
                                 JsBool(bits[3] = "1"))}]

parsePriority(token) ==
    IF token = {} \/ token = {<<>>} THEN [value |-> 0, consumed |-> FALSE]
    ELSE LET word == CHOOSE w \in token : TRUE
         IN  IF ~numericRegexp(word) THEN [value |-> 0, consumed |-> FALSE]
             ELSE [value |-> parseInt(word), consumed |-> TRUE]

parseScope(token) ==
    IF token = {} \/ token = {<<>>} THEN {}
    ELSE LET lower == Join(toLowerCase(CHOOSE w \in token : TRUE))
         IN  CASE lower \in {"global", "g", "all", "public"} -> {"global"}
               [] lower \in {"group", "c", "chat", "channel", "guild"} ->
                    {"group"}
               [] lower \in {"personal", "p", "user", "private", "person",
                             "self"} -> {"personal"}
               [] OTHER -> {}

\* actionMap[token]: the map is an object literal, so a word that is not one
\* of its keys reads undefined unless Object.prototype has a member of that
\* name; of those only constructor and __proto__ are written in lower case
actionMap(word) ==
    LET key == Join(word)
    IN  CASE key \in {"read", "view", "r", "v"} -> {"read"}
          [] key \in {"create", "save", "write", "c", "w", "s"} -> {"create"}
          [] key \in {"remove", "delete", "del", "d", "rm"} -> {"remove"}
          [] key = "constructor" -> {"function Object() { [native code] }"}
          [] key = "__proto__" -> {"[object Object]"}
          [] OTHER -> {}

\* the current group of a message: context.group_id when the message has one
currentGroupId(context) == context.group_id

\* ensureGroupValue taking the group id of a private chat as '0'
ensureGroupValue_AcceptsNoGroup(raw, context) ==
    LET value == IF raw # {} /\ raw # {<<>>} THEN CHOOSE w \in raw : TRUE
                 ELSE IF currentGroupId(context) \in {{}, {0}} THEN <<"0">>
                 ELSE Numeral(CHOOSE g \in currentGroupId(context) : TRUE)
    IN  IF ~numericRegexp(value)
        THEN [error |-> {"group id not numeric"}, value |-> {}]
        ELSE [error |-> {}, value |-> {value}]

ensureGroupValue(raw, context) ==
    IF (raw = {} \/ raw = {<<>>}) /\ currentGroupId(context) \in {{}, {0}}
    THEN [error |-> {"group id required"}, value |-> {}]
    ELSE LET value == IF raw # {} /\ raw # {<<>>} THEN CHOOSE w \in raw : TRUE
                      ELSE Numeral(CHOOSE g \in currentGroupId(context) : TRUE)
         IN  IF ~numericRegexp(value)
             THEN [error |-> {"group id not numeric"}, value |-> {}]
             ELSE [error |-> {}, value |-> {value}]

ensureUserValue(raw, mentionUserList) ==
    LET value == IF raw # {} /\ raw # {<<>>} THEN raw
                 ELSE IF mentionUserList # <<>> THEN {mentionUserList[1]}
                 ELSE raw
    IN  IF value = {} \/ value = {<<>>}
        THEN [error |-> {"user id required"}, value |-> {}]
        ELSE IF ~numericRegexp(CHOOSE w \in value : TRUE)
        THEN [error |-> {"user id not numeric"}, value |-> {}]
        ELSE [error |-> {}, value |-> value]

\* the result {selector} or {error} of parseSelectorToken
Parsed(type, value) ==
    [error |-> {}, selector |-> {Sel(type, {Join(w) : w \in value})}]

ParseError(error) == [error |-> error, selector |-> {}]

parseSelectorToken(token, scope, mentionUserList, context) ==
    IF token = {} \/ token = {<<>>} \/ token = {<<"-">>}
    THEN CASE scope = "group" ->
                LET result == ensureGroupValue({}, context)
                IN  IF result.error # {} THEN ParseError(result.error)
                    ELSE Parsed("group", result.value)
           [] scope = "personal" ->
                Parsed("user", {Numeral(context.user_id)})
           [] OTHER -> Parsed("everyone", {})
    ELSE LET word == CHOOSE w \in token : TRUE
         IN  IF Head(word) = "@"
             THEN LET possibleId == Tail(word)
                  IN  IF possibleId = <<>>
                      THEN ParseError({"user id required"})
                      ELSE IF ~numericRegexp(possibleId)
                      THEN ParseError({"user id not numeric"})
                      ELSE Parsed("user", {possibleId})
             ELSE LET parts == split(word, 2)
                      rawType == Join(toLowerCase(parts[1]))
                      value == IF Len(parts) >= 2 THEN {parts[2]} ELSE {}
                      type == CASE rawType = "group_admin" -> "groupadmin"
                                [] rawType = "groupmember" -> "group_member"
                                [] OTHER -> rawType
                      group == ensureGroupValue(value, context)
                      user == ensureUserValue(value, mentionUserList)
                  IN  CASE type \in {"allowlist_user", "everyone"} ->
                             Parsed("everyone", {})
                        [] type = "admin" -> Parsed("admin", {})
                        [] type \in {"群", "chat", "channel", "guild", "g",
                                     "group"} ->
                             IF group.error # {} THEN ParseError(group.error)
                             ELSE Parsed("group", group.value)
                        [] type = "groupadmin" ->
                             IF group.error # {} THEN ParseError(group.error)
                             ELSE Parsed("groupadmin", group.value)
                        [] type = "group_member" ->
                             IF group.error # {} THEN ParseError(group.error)
                             ELSE Parsed("group_member", group.value)
                        [] type = "owner" -> Parsed("owner", {})
                        [] type \in {"u", "user"} ->
                             IF user.error # {} THEN ParseError(user.error)
                             ELSE Parsed("user", user.value)
                        [] OTHER -> ParseError({"unknown selector"})

(***************************************************************************)
(* The pure functions on their own: a call is drawn at the start and the   *)
(* function is applied to it.                                              *)
(***************************************************************************)
\* selectors of every type, one unknown type included
SelectorInputs ==
    {Sel(t, v) :
        t \in {"admin", "allowlist_user", "everyone", "user", "group",
               "groupadmin", "owner", "group_member", "nobody"},
        v \in {{}, {""}, {"1"}, {"100"}, {"200"}}}

ActorInputs ==
    {[userId |-> u, groupId |-> g, isAdmin |-> ad,
      isAllowlistUser |-> au, isAllowlistGroup |-> ag,
      isGroupAdmin |-> ga] :
        u \in {1, 2}, g \in {{}, {100}}, ad \in BOOLEAN, au \in BOOLEAN,
        ag \in BOOLEAN,
        ga \in {[kind |-> "absent", groups |-> {}],
                [kind |-> "fn", groups |-> {}],
                [kind |-> "fn", groups |-> {"100"}],
                [kind |-> "throws", groups |-> {}]}}

TargetInputs ==
    Targets \cup {Target("group", {}, {}), Target("personal", {}, {}),
                  Target("group", {"1"}, {"100"})}

\* strings handed to bitsToPermissions: up to four characters
BitsInputs ==
    UNION {[1..n -> {"0", "1", "2"}] : n \in 0..4}

TokenInputs ==
    {{}, {<<>>}, {<<"-">>}, {<<"-", "1">>}, {<<"@">>}, {<<"@", "2">>},
     {<<"@", "x">>}, {<<"e", "v", "e", "r", "y", "o", "n", "e">>},
     {<<"a", "d", "m", "i", "n">>}, {<<"o", "w", "n", "e", "r">>},
     {<<"g", "r", "o", "u", "p">>},
     {<<"g", "r", "o", "u", "p", ":", "2", "0", "0">>},
     {<<"G", ":", "1", "x">>}, {<<"群", ":", "1", "0", "0">>},
     {<<"g", "r", "o", "u", "p", "_", "a", "d", "m", "i", "n">>},
     {<<"g", "r", "o", "u", "p", "m", "e", "m", "b", "e", "r", ":", "1">>},
     {<<"u", "s", "e", "r">>}, {<<"u", "s", "e", "r", ":">>},
     {<<"u", ":", "2", ":", "1">>}, {<<"u", "s", "e", "r", ":", "x">>},
     {<<"n", "o", "b", "o", "d", "y", ":", "1">>}, {<<":", "1">>}}

ContextInputs == {[user_id |-> u, group_id |-> g] : u \in {1, 2}, g \in {{}, {100}}}

MentionInputs == {<<>>, <<<<"2">>>>, <<<<"x">>, <<"2">>>>}

CallInputs ==
    {[op |-> "call", fn |-> "matchesSelector", selector |-> s, actor |-> a,
      target |-> t] :
        s \in SelectorInputs, a \in ActorInputs, t \in TargetInputs}
    \cup {[op |-> "call", fn |-> "bitsToPermissions", bits |-> b] :
              b \in BitsInputs}
    \cup {[op |-> "call", fn |-> "parseSelectorToken", token |-> t,
           scope |-> sc, mentionUserList |-> m, context |-> c] :
              t \in TokenInputs, sc \in PermissionScope, m \in MentionInputs,
              c \in ContextInputs}

InitSelectors ==
    /\ custom = <<>>
    /\ defaults = <<>>
    /\ file = FileOf("absent", <<>>)
    /\ clock = 1
    /\ nextId = 1
    /\ calls = 0
    /\ last \in CallInputs
    /\ pending = [phase |-> "idle"]
    /\ images = <<>>
    /\ groupAdminCache = <<>>
    /\ config = [enablePolicyAuth |-> TRUE, admins |-> {}]
    /\ allowlist = [users |-> {}, groups |-> {}]
    /\ handled = [op |-> "none"]
    /\ disk = Disk(allowlist, {})
    /\ proc = Running

MatchesSelector ==
    /\ last.op = "call" /\ last.fn = "matchesSelector"
    /\ last' = [op |-> "matchesSelector", selector |-> last.selector,
                actor |-> last.actor, target |-> last.target,
                ret |-> matchesSelector(last.selector, last.actor, last.target)]
    /\ UNCHANGED <<custom, defaults, file, clock, nextId, calls, pending,
                   images, groupAdminCache, config, allowlist, handled,
                   disk, proc>>

BitsToPermissions ==
    /\ last.op = "call" /\ last.fn = "bitsToPermissions"
    /\ last' = [op |-> "bitsToPermissions", bits |-> last.bits,
                ret |-> bitsToPermissions(last.bits)]
    /\ UNCHANGED <<custom, defaults, file, clock, nextId, calls, pending,
                   images, groupAdminCache, config, allowlist, handled,
                   disk, proc>>

ParseSelectorToken ==
    /\ last.op = "call" /\ last.fn = "parseSelectorToken"
    /\ last' = [op |-> "parseSelectorToken", token |-> last.token,
                scope |-> last.scope, context |-> last.context,
                mentionUserList |-> last.mentionUserList,
                ret |-> parseSelectorToken(last.token, last.scope,
                                           last.mentionUserList, last.context)]
    /\ UNCHANGED <<custom, defaults, file, clock, nextId, calls, pending,
                   images, groupAdminCache, config, allowlist, handled,
                   disk, proc>>

NextSelectors ==
    \/ MatchesSelector
    \/ BitsToPermissions
    \/ ParseSelectorToken

SpecSelectors == InitSelectors /\ [][NextSelectors]_vars

(***************************************************************************)
(* getGroupAdminStatus and its cache (index.ts)                            *)
(***************************************************************************)
\* lifetime in ms of a cached answer of a lookup that succeeded
PositiveTtl == 60000

\* lifetime in ms of the answer cached after a lookup that failed
NegativeTtl == 15000

\* napcat.get_group_member_info: the member's role, no info, or a rejection
LookupOutcomes == {"owner", "admin", "member", "null", "throw"}

\* `${groupId}:${userId}`
CacheKey(userId, groupId) == <<groupId, userId>>

\* groupAdminCache.set(key, entry)
CacheSet(cache, key, entry) ==
    [k \in DOMAIN cache \cup {key} |-> IF k = key THEN entry ELSE cache[k]]

\* getGroupAdminStatus caching a failed lookup as long as an answer
getGroupAdminStatus_SameTtl(cache, userId, groupId, now, info) ==
    LET key == CacheKey(userId, groupId)
        isAdmin == info \in {"owner", "admin"}
    IN  IF key \in DOMAIN cache /\ cache[key].expires > now
        THEN [ret |-> JsBool(cache[key].value), cache |-> cache,
              looked |-> FALSE]
        ELSE IF info = "throw"
        THEN [ret |-> "false",
              cache |-> CacheSet(cache, key,
                            [value |-> FALSE, expires |-> now + PositiveTtl]),
              looked |-> TRUE]
        ELSE [ret |-> JsBool(isAdmin),
              cache |-> CacheSet(cache, key,
                            [value |-> isAdmin, expires |-> now + PositiveTtl]),
              looked |-> TRUE]

\* getGroupAdminStatus returning an entry at the instant it expires
getGroupAdminStatus_AtExpiry(cache, userId, groupId, now, info) ==
    LET key == CacheKey(userId, groupId)
        isAdmin == info \in {"owner", "admin"}
    IN  IF key \in DOMAIN cache /\ cache[key].expires >= now
        THEN [ret |-> JsBool(cache[key].value), cache |-> cache,
              looked |-> FALSE]
        ELSE IF info = "throw"
        THEN [ret |-> "false",
              cache |-> CacheSet(cache, key,
                            [value |-> FALSE, expires |-> now + NegativeTtl]),
              looked |-> TRUE]
        ELSE [ret |-> JsBool(isAdmin),
              cache |-> CacheSet(cache, key,
                            [value |-> isAdmin, expires |-> now + PositiveTtl]),
              looked |-> TRUE]

\* the answer, the cache after the call, and whether napcat was asked
getGroupAdminStatus(cache, userId, groupId, now, info) ==
    LET key == CacheKey(userId, groupId)
        isAdmin == info \in {"owner", "admin"}
    IN  IF key \in DOMAIN cache /\ cache[key].expires > now
        THEN [ret |-> JsBool(cache[key].value), cache |-> cache,
              looked |-> FALSE]
        ELSE IF info = "throw"
        THEN [ret |-> "false",
              cache |-> CacheSet(cache, key,
                            [value |-> FALSE, expires |-> now + NegativeTtl]),
              looked |-> TRUE]
        ELSE [ret |-> JsBool(isAdmin),
              cache |-> CacheSet(cache, key,
                            [value |-> isAdmin, expires |-> now + PositiveTtl]),
              looked |-> TRUE]

\* last.asked keeps, for every group and user napcat was asked about, when
\* the latest request was made and how it ended
GetGroupAdminStatus ==
    \E userId \in {1}, groupId \in {100, 200}, info \in LookupOutcomes :
        LET result == getGroupAdminStatus(groupAdminCache, userId, groupId,
                                          clock, info)
        IN  /\ groupAdminCache' = result.cache
            /\ last' = [op |-> "getGroupAdminStatus", userId |-> userId,
                        groupId |-> groupId, now |-> clock,
                        info |-> IF result.looked THEN info ELSE "cached",
                        ret |-> result.ret,
                        asked |->
                            IF result.looked
                            THEN CacheSet(last.asked, <<groupId, userId>>,
                                          [at |-> clock, info |-> info])
                            ELSE last.asked]
            /\ UNCHANGED <<custom, defaults, file, clock, nextId, calls,
                           pending, images, config, allowlist, handled,
                   disk, proc>>

\* time passes between two calls
Elapse ==
    \E ms \in {5000, NegativeTtl} :
        /\ clock + ms <= 1 + MaxTicks * NegativeTtl
        /\ clock' = clock + ms
        /\ last' = [op |-> "elapse", ms |-> ms, asked |-> last.asked]
        /\ UNCHANGED <<custom, defaults, file, nextId, calls, pending,
                       images, groupAdminCache, config, allowlist, handled,
                   disk, proc>>

InitGroupAdmin ==
    /\ custom = <<>>
    /\ defaults = <<>>
    /\ file = FileOf("absent", <<>>)
    /\ clock = 1
    /\ nextId = 1
    /\ calls = 0
    /\ last = [op |-> "none", asked |-> <<>>]
    /\ pending = [phase |-> "idle"]
    /\ images = <<>>
    /\ groupAdminCache = <<>>
    /\ config = [enablePolicyAuth |-> TRUE, admins |-> {}]
    /\ allowlist = [users |-> {}, groups |-> {}]
    /\ handled = [op |-> "none"]
    /\ disk = Disk(allowlist, {})
    /\ proc = Running

NextGroupAdmin ==
    \/ GetGroupAdminStatus
    \/ Elapse

SpecGroupAdmin == InitGroupAdmin /\ [][NextGroupAdmin]_vars

(***************************************************************************)
(* The message handler of the bot (index.ts): the sender's actor context,  *)
(* canAccess and ensureCanModifyPolicies.  A message is handled in one     *)
(* step; lookup is what napcat answers about the sender, per group, while  *)
(* the message is handled.                                                 *)
(***************************************************************************)
\* Number(groupId) on the ids the model uses; -1 stands for NaN
Number(s) ==
    CASE s = "1" -> 1
      [] s = "2" -> 2
      [] s = "100" -> 100
      [] s = "200" -> 200
      [] OTHER -> -1

GroupIdStrings == {"1", "2", "100", "200"}

\* napcat's answers while one message is handled
LookupInputs ==
    {[g \in {1, 2, 100, 200} |-> "member"],
     [g \in {1, 2, 100, 200} |-> IF g = 100 THEN "owner" ELSE "member"],
     [g \in {1, 2, 100, 200} |-> "throw"]}

\* config.admins?.includes(context.user_id)
isAdmin(context) == context.user_id \in config.admins

\* actorContext: isGroupAdmin answers through getGroupAdminStatus
actorContext(context, cache, lookup, now) ==
    [userId |-> context.user_id,
     groupId |-> currentGroupId(context),
     isAdmin |-> isAdmin(context),
     isAllowlistUser |-> context.user_id \in allowlist.users,
     isAllowlistGroup |->
         \E g \in currentGroupId(context) : g \in allowlist.groups,
     isGroupAdmin |->
         [kind |-> "fn",
          groups |-> {s \in GroupIdStrings :
                         getGroupAdminStatus(cache, context.user_id, Number(s),
                                             now, lookup[Number(s)]).ret
                             = "true"}]]

\* buildTarget: an empty ownerId or groupId is left out
buildTarget(scope, ownerId, groupId) ==
    [scope |-> scope,
     ownerId |-> IF TruthyStr(ownerId) THEN ownerId ELSE {},
     groupId |-> IF TruthyStr(groupId) THEN groupId ELSE {}]

\* resolveUserTarget and resolveImageTarget: a user_id is 'global',
\* 'chat-' followed by a group id (two pieces), or a user's id
resolveUserTarget(userId) ==
    CASE userId = <<"global">> -> buildTarget("global", {}, {})
      [] Head(userId) = "chat-" ->
            buildTarget("group", {}, {Join(Tail(userId))})
      [] OTHER -> buildTarget("personal", {Join(userId)}, {})

\* the group ids a scan of pickRule asks the actor's predicate about
RECURSIVE AskedInScan(_, _, _)
AskedInScan(sorted, actor, target) ==
    IF sorted = <<>> THEN {}
    ELSE LET selector == Head(sorted).selector
             groupId == IF selector.value # {} THEN selector.value
                        ELSE target.groupId
             asked == IF selector.type = "groupadmin" /\ TruthyStr(groupId)
                      THEN groupId ELSE {}
         IN  IF matchesSelector(selector, actor, target) = "true" THEN asked
             ELSE asked \cup AskedInScan(Tail(sorted), actor, target)

AskedInPick(rules, actor, target) ==
    AskedInScan(sortRules(SelectSeq(rules,
                    LAMBDA rule : rule.scope = target.scope)), actor, target)

\* the group ids isAllowed asks about: the custom rules first, the
\* defaults when no custom rule matched
AskedInIsAllowed(actor, target) ==
    AskedInPick(custom, actor, target)
        \cup IF pickRule(custom, actor, target).kind = "null"
             THEN AskedInPick(defaults, actor, target) ELSE {}

\* the cache after getGroupAdminStatus has been called for each asked id
RECURSIVE CacheAfter(_, _, _, _, _)
CacheAfter(cache, userId, asked, lookup, now) ==
    IF asked = {} THEN cache
    ELSE LET s == CHOOSE x \in asked : TRUE
             next == IF Number(s) = -1 THEN cache
                     ELSE getGroupAdminStatus(cache, userId, Number(s), now,
                                              lookup[Number(s)]).cache
         IN  CacheAfter(next, userId, asked \ {s}, lookup, now)

\* the value of a body for a value that is computed once
Bind(value, Body(_)) == CHOOSE result \in {Body(v) : v \in {value}} : TRUE

\* canAccess: the answer and the cache after it
canAccess(context, target, action, cache, lookup, now) ==
    IF ~config.enablePolicyAuth THEN [ret |-> "true", cache |-> cache]
    ELSE Bind(actorContext(context, cache, lookup, now), LAMBDA actor :
             [ret |-> isAllowed(custom, defaults, actor, target, action),
              cache |-> CacheAfter(cache, context.user_id,
                                   AskedInIsAllowed(actor, target), lookup,
                                   now)])

\* ensureCanModifyPolicies without the comparison of the selector's value
\* with the group the message came from
ensureCanModifyPolicies_AnyGroup(scope, selector, context, cache, lookup, now) ==
    LET group == CHOOSE g \in currentGroupId(context) : TRUE
        status == getGroupAdminStatus(cache, context.user_id, group, now,
                                      lookup[group])
    IN  CASE isAdmin(context) -> [ok |-> TRUE, cache |-> cache, sent |-> 0]
          [] scope # "group" -> [ok |-> FALSE, cache |-> cache, sent |-> 1]
          [] ~TruthyStr(selector.value) ->
                [ok |-> FALSE, cache |-> cache, sent |-> 1]
          [] currentGroupId(context) \in {{}, {0}} ->
                [ok |-> FALSE, cache |-> cache, sent |-> 1]
          [] status.ret # "true" ->
                [ok |-> FALSE, cache |-> status.cache, sent |-> 1]
          [] OTHER -> [ok |-> TRUE, cache |-> status.cache, sent |-> 0]

\* ensureCanModifyPolicies: whether the sender may change the rule, the
\* cache after the check and the number of messages sent
ensureCanModifyPolicies(scope, selector, context, cache, lookup, now) ==
    LET group == CHOOSE g \in currentGroupId(context) : TRUE
        status == getGroupAdminStatus(cache, context.user_id, group, now,
                                      lookup[group])
    IN  CASE isAdmin(context) -> [ok |-> TRUE, cache |-> cache, sent |-> 0]
          [] scope # "group" -> [ok |-> FALSE, cache |-> cache, sent |-> 1]
          [] ~TruthyStr(selector.value) ->
                [ok |-> FALSE, cache |-> cache, sent |-> 1]
          [] currentGroupId(context) \in {{}, {0}}
                 \/ selector.value # {toString(group)} ->
                [ok |-> FALSE, cache |-> cache, sent |-> 1]
          [] status.ret # "true" ->
                [ok |-> FALSE, cache |-> status.cache, sent |-> 1]
          [] OTHER -> [ok |-> TRUE, cache |-> status.cache, sent |-> 0]

(***************************************************************************)
(* handlePermissionToggle and handlePermCommand.  The result of a handler  *)
(* is the number of messages it sends, the call it makes on the policy     *)
(* manager (kind "none" when it returns before) and the cache after it.    *)
(***************************************************************************)
NoCall == [kind |-> "none"]

Handled(sent, call, cache) == [sent |-> sent, call |-> call, cache |-> cache]

\* the arguments without a trailing priority, and the priority
SplitPriority(tokens) ==
    LET pr == IF tokens = <<>> THEN [value |-> 0, consumed |-> FALSE]
              ELSE parsePriority({tokens[Len(tokens)]})
    IN  [tokens |-> IF pr.consumed THEN SubSeq(tokens, 1, Len(tokens) - 1)
                    ELSE tokens,
         priority |-> IF pr.consumed THEN {pr.value} ELSE {}]

handlePermissionToggle(enable, args, context, mentionUserIds, cache, lookup, now) ==
    LET trimmed == SplitPriority(args)
        tokens == trimmed.tokens
        selectorToken == IF Len(tokens) >= 3 THEN {tokens[1]} ELSE {}
        rest == IF Len(tokens) >= 3 THEN Tail(tokens) ELSE tokens
        actionToken == rest[1]
        scopeToken == rest[2]
        action == actionMap(toLowerCase(actionToken))
        scope == parseScope({scopeToken})
        sc == CHOOSE x \in scope : TRUE
        selectorResult == parseSelectorToken(selectorToken, sc, mentionUserIds,
                                             context)
        selector == CHOOSE x \in selectorResult.selector : TRUE
        may == ensureCanModifyPolicies(sc, selector, context, cache, lookup, now)
    IN  CASE ~config.enablePolicyAuth -> Handled(1, NoCall, cache)
          [] Len(tokens) < 2 -> Handled(1, NoCall, cache)
          [] actionToken = <<>> \/ scopeToken = <<>> \/ Len(rest) > 2 ->
                Handled(1, NoCall, cache)
          [] action = {} -> Handled(1, NoCall, cache)
          [] scope = {} -> Handled(1, NoCall, cache)
          [] selectorResult.error # {} \/ selectorResult.selector = {} ->
                Handled(1, NoCall, cache)
          [] ~may.ok -> Handled(may.sent, NoCall, may.cache)
          [] OTHER ->
                Handled(1,
                        [kind |-> "updateSinglePermission", scope |-> sc,
                         selector |-> selector, priority |-> trimmed.priority,
                         action |-> CHOOSE a \in action : TRUE,
                         value |-> JsBool(enable)],
                        may.cache)

\* args[i] of a JavaScript array: undefined past its end
At(args, i) == IF i <= Len(args) THEN {args[i]} ELSE {}

\* the subcommands of handlePermCommand that change rules, its help and its
\* answer to an unknown subcommand
handlePermCommand(args, context, mentionUserIds, cache, lookup, now) ==
    LET action == IF args = <<>> \/ args[1] = <<>> THEN "help"
                  ELSE Join(args[1])
        scope == parseScope(At(args, 2))
        sc == CHOOSE x \in scope : TRUE
        permsResult == bitsToPermissions(args[4])
        extras == SplitPriority(SubSeq(args, IF action = "set" THEN 5 ELSE 3,
                                       Len(args)))
        selectorResult ==
            parseSelectorToken(IF action = "set" THEN At(args, 3)
                               ELSE At(extras.tokens, 1),
                               sc, mentionUserIds, context)
        selector == CHOOSE x \in selectorResult.selector : TRUE
        may == ensureCanModifyPolicies(sc, selector, context, cache, lookup, now)
    IN  CASE ~config.enablePolicyAuth -> Handled(1, NoCall, cache)
          [] action = "help" -> Handled(1, NoCall, cache)
          [] action = "set" ->
                CASE Len(args) < 4 -> Handled(1, NoCall, cache)
                  [] scope = {} -> Handled(1, NoCall, cache)
                  [] permsResult.error # {} \/ permsResult.permissions = {} ->
                        Handled(1, NoCall, cache)
                  [] selectorResult.error # {} \/ selectorResult.selector = {} ->
                        Handled(1, NoCall, cache)
                  [] ~may.ok -> Handled(may.sent, NoCall, may.cache)
                  [] OTHER ->
                        Handled(1,
                                [kind |-> "setRulePermissions", scope |-> sc,
                                 selector |-> selector,
                                 priority |-> extras.priority,
                                 permissions |->
                                     CHOOSE p \in permsResult.permissions : TRUE],
                                may.cache)
          [] action = "clear" ->
                CASE Len(args) < 2 -> Handled(1, NoCall, cache)
                  [] scope = {} -> Handled(1, NoCall, cache)
                  [] selectorResult.error # {} \/ selectorResult.selector = {} ->
                        Handled(1, NoCall, cache)
                  [] ~may.ok -> Handled(may.sent, NoCall, may.cache)
                  [] OTHER ->
                        Handled(1,
                                [kind |-> "removeRules", scope |-> {sc},
                                 selector |-> {selector},
                                 priority |-> extras.priority,
                                 removeAll |-> TRUE],
                                may.cache)
          [] OTHER -> Handled(1, NoCall, cache)

(***************************************************************************)
(* The permission commands as actions: a message with the words after      *)
(* 'enable', 'disable' or 'perm' arrives and is handled.  User 2 is the    *)
(* global admin.                                                           *)
(***************************************************************************)
\* messages that start with 'enable' or 'disable'
ToggleInputs ==
    {\* user 2 in a private chat: enable view global
     [context |-> [user_id |-> 2, group_id |-> {}], enable |-> TRUE,
      args |-> <<<<"v", "i", "e", "w">>, <<"g", "l", "o", "b", "a", "l">>>>],
     \* user 1 in group 100: disable - remove group
     [context |-> [user_id |-> 1, group_id |-> {100}], enable |-> FALSE,
      args |-> <<<<"-">>, <<"r", "e", "m", "o", "v", "e">>, <<"g", "r", "o", "u", "p">>>>],
     \* user 2 in a private chat: enable user:1 save personal 5
     [context |-> [user_id |-> 2, group_id |-> {}], enable |-> TRUE,
      args |-> <<<<"u", "s", "e", "r", ":", "1">>, <<"s", "a", "v", "e">>, <<"p", "e", "r", "s", "o", "n", "a", "l">>, <<"5">>>>],
     \* user 1 in group 100: enable group:200 view group
     [context |-> [user_id |-> 1, group_id |-> {100}], enable |-> TRUE,
      args |-> <<<<"g", "r", "o", "u", "p", ":", "2", "0", "0">>, <<"v", "i", "e", "w">>, <<"g", "r", "o", "u", "p">>>>],
     \* user 1 in a private chat: enable view global
     [context |-> [user_id |-> 1, group_id |-> {}], enable |-> TRUE,
      args |-> <<<<"v", "i", "e", "w">>, <<"g", "l", "o", "b", "a", "l">>>>],
     \* user 2 in a private chat: enable - constructor global
     [context |-> [user_id |-> 2, group_id |-> {}], enable |-> TRUE,
      args |-> <<<<"-">>, <<"c", "o", "n", "s", "t", "r", "u", "c", "t", "o", "r">>, <<"g", "l", "o", "b", "a", "l">>>>],
     \* user 2 in a private chat: enable - fly global
     [context |-> [user_id |-> 2, group_id |-> {}], enable |-> TRUE,
      args |-> <<<<"-">>, <<"f", "l", "y">>, <<"g", "l", "o", "b", "a", "l">>>>],
     \* user 2 in a private chat: disable - view nowhere
     [context |-> [user_id |-> 2, group_id |-> {}], enable |-> FALSE,
      args |-> <<<<"-">>, <<"v", "i", "e", "w">>, <<"n", "o", "w", "h", "e", "r", "e">>>>],
     \* user 2 in a private chat: enable nobody:1 view global
     [context |-> [user_id |-> 2, group_id |-> {}], enable |-> TRUE,
      args |-> <<<<"n", "o", "b", "o", "d", "y", ":", "1">>, <<"v", "i", "e", "w">>, <<"g", "l", "o", "b", "a", "l">>>>],
     \* user 2 in a private chat: enable view
     [context |-> [user_id |-> 2, group_id |-> {}], enable |-> TRUE,
      args |-> <<<<"v", "i", "e", "w">>>>],
     \* user 2 in a private chat: enable - view global extra
     [context |-> [user_id |-> 2, group_id |-> {}], enable |-> TRUE,
      args |-> <<<<"-">>, <<"v", "i", "e", "w">>, <<"g", "l", "o", "b", "a", "l">>, <<"e", "x", "t", "r", "a">>>>],
     \* user 2 in a private chat: enable - view group
     [context |-> [user_id |-> 2, group_id |-> {}], enable |-> TRUE,
      args |-> <<<<"-">>, <<"v", "i", "e", "w">>, <<"g", "r", "o", "u", "p">>>>],
     \* user 1 in group 100: disable group_admin view group
     [context |-> [user_id |-> 1, group_id |-> {100}], enable |-> FALSE,
      args |-> <<<<"g", "r", "o", "u", "p", "_", "a", "d", "m", "i", "n">>, <<"v", "i", "e", "w">>, <<"g", "r", "o", "u", "p">>>>]}

\* messages that start with 'perm'
PermInputs ==
    {\* user 2 in a private chat: perm set global everyone 110
     [context |-> [user_id |-> 2, group_id |-> {}],
      args |-> <<<<"s", "e", "t">>, <<"g", "l", "o", "b", "a", "l">>, <<"e", "v", "e", "r", "y", "o", "n", "e">>, <<"1", "1", "0">>>>],
     \* user 1 in group 100: perm set group - 101 7
     [context |-> [user_id |-> 1, group_id |-> {100}],
      args |-> <<<<"s", "e", "t">>, <<"g", "r", "o", "u", "p">>, <<"-">>, <<"1", "0", "1">>, <<"7">>>>],
     \* user 2 in a private chat: perm set global everyone 11
     [context |-> [user_id |-> 2, group_id |-> {}],
      args |-> <<<<"s", "e", "t">>, <<"g", "l", "o", "b", "a", "l">>, <<"e", "v", "e", "r", "y", "o", "n", "e">>, <<"1", "1">>>>],
     \* user 2 in a private chat: perm set global everyone 1x0
     [context |-> [user_id |-> 2, group_id |-> {}],
      args |-> <<<<"s", "e", "t">>, <<"g", "l", "o", "b", "a", "l">>, <<"e", "v", "e", "r", "y", "o", "n", "e">>, <<"1", "x", "0">>>>],
     \* user 2 in a private chat: perm set global everyone 110 extra
     [context |-> [user_id |-> 2, group_id |-> {}],
      args |-> <<<<"s", "e", "t">>, <<"g", "l", "o", "b", "a", "l">>, <<"e", "v", "e", "r", "y", "o", "n", "e">>, <<"1", "1", "0">>, <<"e", "x", "t", "r", "a">>>>],
     \* user 2 in a private chat: perm set nowhere everyone 110
     [context |-> [user_id |-> 2, group_id |-> {}],
      args |-> <<<<"s", "e", "t">>, <<"n", "o", "w", "h", "e", "r", "e">>, <<"e", "v", "e", "r", "y", "o", "n", "e">>, <<"1", "1", "0">>>>],
     \* user 2 in a private chat: perm set global user:x 110
     [context |-> [user_id |-> 2, group_id |-> {}],
      args |-> <<<<"s", "e", "t">>, <<"g", "l", "o", "b", "a", "l">>, <<"u", "s", "e", "r", ":", "x">>, <<"1", "1", "0">>>>],
     \* user 2 in a private chat: perm set global everyone
     [context |-> [user_id |-> 2, group_id |-> {}],
      args |-> <<<<"s", "e", "t">>, <<"g", "l", "o", "b", "a", "l">>, <<"e", "v", "e", "r", "y", "o", "n", "e">>>>],
     \* user 2 in a private chat: perm help
     [context |-> [user_id |-> 2, group_id |-> {}],
      args |-> <<<<"h", "e", "l", "p">>>>],
     \* user 2 in a private chat: perm fly
     [context |-> [user_id |-> 2, group_id |-> {}],
      args |-> <<<<"f", "l", "y">>>>],
     \* user 2 in a private chat: perm clear global user:1
     [context |-> [user_id |-> 2, group_id |-> {}],
      args |-> <<<<"c", "l", "e", "a", "r">>, <<"g", "l", "o", "b", "a", "l">>, <<"u", "s", "e", "r", ":", "1">>>>],
     \* user 1 in group 100: perm clear group
     [context |-> [user_id |-> 1, group_id |-> {100}],
      args |-> <<<<"c", "l", "e", "a", "r">>, <<"g", "r", "o", "u", "p">>>>],
     \* user 2 in a private chat: perm clear
     [context |-> [user_id |-> 2, group_id |-> {}],
      args |-> <<<<"c", "l", "e", "a", "r">>>>],
     \* user 2 in a private chat: perm clear global user:1 extra
     [context |-> [user_id |-> 2, group_id |-> {}],
      args |-> <<<<"c", "l", "e", "a", "r">>, <<"g", "l", "o", "b", "a", "l">>, <<"u", "s", "e", "r", ":", "1">>, <<"e", "x", "t", "r", "a">>>>],
     \* user 2 in a private chat: perm clear global nobody:1
     [context |-> [user_id |-> 2, group_id |-> {}],
      args |-> <<<<"c", "l", "e", "a", "r">>, <<"g", "l", "o", "b", "a", "l">>, <<"n", "o", "b", "o", "d", "y", ":", "1">>>>],
     \* user 1 in group 100: perm set group user:100 000
     [context |-> [user_id |-> 1, group_id |-> {100}],
      args |-> <<<<"s", "e", "t">>, <<"g", "r", "o", "u", "p">>, <<"u", "s", "e", "r", ":", "1", "0", "0">>, <<"0", "0", "0">>>>],
     \* user 1 in a private chat: perm clear personal
     [context |-> [user_id |-> 1, group_id |-> {}],
      args |-> <<<<"c", "l", "e", "a", "r">>, <<"p", "e", "r", "s", "o", "n", "a", "l">>>>]}

\* the call a handler makes on the policy manager
ManagerCall(call, now) ==
    CASE call.kind = "updateSinglePermission" ->
            updateSinglePermission(call.scope, call.selector, call.priority,
                                   call.action, call.value, now)
      [] call.kind = "setRulePermissions" ->
            setRulePermissions(call.scope, call.selector, call.priority,
                               call.permissions, now)
      [] call.kind = "removeRules" ->
            removeRules(call.scope, call.selector, call.priority,
                        call.removeAll)
      [] OTHER ->
            /\ calls < MaxCalls
            /\ calls' = calls + 1
            /\ UNCHANGED <<custom, defaults, file, clock, nextId, last, pending>>

\* the times Date.now() can return in the call a handler makes
CallTimes(call) == IF call.kind = "none" THEN {clock} ELSE Now

PermissionToggle ==
    /\ calls < MaxCalls
    /\ \E m \in ToggleInputs :
        \E out \in {handlePermissionToggle(m.enable, m.args, m.context, <<>>,
                                           groupAdminCache, lookup, clock) :
                        lookup \in LookupInputs} :
            \E now \in CallTimes(out.call) :
                /\ handled' = [op |-> "toggle", enable |-> m.enable,
                               args |-> m.args, context |-> m.context,
                               sent |-> out.sent, call |-> out.call.kind]
                /\ groupAdminCache' = out.cache
                /\ ManagerCall(out.call, now)
                /\ UNCHANGED <<images, config, allowlist, disk, proc>>

PermCommand ==
    /\ calls < MaxCalls
    /\ \E m \in PermInputs :
        \E out \in {handlePermCommand(m.args, m.context, <<>>, groupAdminCache,
                                      lookup, clock) :
                        lookup \in LookupInputs} :
            \E now \in CallTimes(out.call) :
                /\ handled' = [op |-> "perm", args |-> m.args,
                               context |-> m.context, sent |-> out.sent,
                               call |-> out.call.kind]
                /\ groupAdminCache' = out.cache
                /\ ManagerCall(out.call, now)
                /\ UNCHANGED <<images, config, allowlist, disk, proc>>

\* a policy file with a rule for group 100 and one for user 1
PolicyFile ==
    FileOf("json",
        <<[id |-> 31, scope |-> "group",
           selector |-> [type |-> "group", value |-> "100"],
           permissions |->
               [read |-> "true", create |-> "false", remove |-> "false"],
           priority |-> 0, createdAt |-> 0],
          [id |-> 32, scope |-> "global",
           selector |-> [type |-> "user", value |-> "1"],
           permissions |->
               [read |-> "true", create |-> "false", remove |-> "true"],
           priority |-> 0, createdAt |-> 0]>>)

\* the bot after start-up: the manager built from the policy file and the
\* bot's default rules
InitBot ==
    \E start \in {[f |-> FileOf("absent", <<>>), auth |-> TRUE],
                  [f |-> PolicyFile, auth |-> TRUE],
                  [f |-> PolicyFile, auth |-> FALSE]} :
        /\ defaults = dedupeRules(BuiltinDefaults, "oldest")
        /\ custom = LoadedCustom(start.f)
        /\ file = LoadedFile(start.f)
        /\ clock = 1
        /\ nextId = 1
        /\ calls = 0
        /\ last = [op |-> "createPolicyManager", found |-> start.f,
                   defaultRules |-> BuiltinDefaults, threw |-> FALSE]
        /\ pending = [phase |-> "idle"]
        /\ images = <<>>
        /\ groupAdminCache = <<>>
        /\ config = [enablePolicyAuth |-> start.auth, admins |-> {2}]
        /\ allowlist = [users |-> {1, 2}, groups |-> {100}]
        /\ handled = [op |-> "none"]
        /\ disk = Disk(allowlist, {})
        /\ proc = Running

NextPermissions ==
    \/ PermissionToggle
    \/ PermCommand

SpecPermissions == InitBot /\ [][NextPermissions]_vars

(***************************************************************************)
(* The image commands.  A row of the images table is a record; its user_id *)
(* is 'global', 'chat-' followed by a group id, or a user's id.  The       *)
(* result of a handler is the number of messages it sends, the table and   *)
(* the cache after it, the rows it shows to the user, and whether a        *)
(* permission check refused it.  A word of the message that names images   *)
(* is kept whole; the words the code parses are character sequences.       *)
(***************************************************************************)
ImageRecord(id, name, filePath, userId, createdAt, savedBy) ==
    [id |-> id, name |-> name, file_path |-> filePath, user_id |-> userId,
     created_at |-> createdAt, saved_by |-> savedBy, use_count |-> 0]

\* path.join('data', userId, fileName): the path downloadImage writes to
\* and returns
downloadImage(userId, fileName) == <<"data", Join(userId), fileName>>

\* the user_id values of the model in the order SQLite compares text
UserIdOrder ==
    <<<<"1">>, <<"2">>, <<"3">>, <<"chat-", "100">>, <<"chat-", "200">>,
      <<"global">>>>

UserIdRank(userId) ==
    CHOOSE i \in 1..Len(UserIdOrder) : UserIdOrder[i] = userId

\* ORDER BY user_id ASC, created_at DESC
SortsBefore(a, b) ==
    \/ UserIdRank(a.user_id) < UserIdRank(b.user_id)
    \/ /\ UserIdRank(a.user_id) = UserIdRank(b.user_id)
       /\ a.created_at > b.created_at

\* rows the ORDER BY clause does not tell apart stay in the order of the table
RECURSIVE OrderBy(_)
OrderBy(rows) ==
    IF rows = <<>> THEN <<>>
    ELSE Bind(CHOOSE i \in 1..Len(rows) :
                  /\ \A j \in 1..Len(rows) : ~SortsBefore(rows[j], rows[i])
                  /\ \A j \in 1..(i - 1) : SortsBefore(rows[i], rows[j]),
              LAMBDA first :
                  Bind(SubSeq(rows, 1, first - 1)
                           \o SubSeq(rows, first + 1, Len(rows)),
                       LAMBDA others : <<rows[first]>> \o OrderBy(others)))

\* `chat-${groupId}` of a groupId that may be null
ChatId(groupId) ==
    IF groupId = {} THEN <<"chat-", "null">>
    ELSE <<"chat-", CHOOSE g \in groupId : TRUE>>

\* getImagesByUser: a null userId equals no user_id
getImagesByUser(userId, groupId, includeGlobal) ==
    OrderBy(SelectSeq(images, LAMBDA row :
                \/ row.user_id \in userId
                \/ row.user_id = ChatId(groupId)
                \/ includeGlobal /\ row.user_id = <<"global">>))

getImagesByNameAndUser(name, userId, groupId, includeGlobal) ==
    OrderBy(SelectSeq(images, LAMBDA row :
                /\ row.name = name
                /\ \/ row.user_id = userId
                   \/ row.user_id = ChatId(groupId)
                   \/ includeGlobal /\ row.user_id = <<"global">>))

\* ORDER BY created_at DESC
RECURSIVE NewestFirst(_)
NewestFirst(rows) ==
    IF rows = <<>> THEN <<>>
    ELSE Bind(CHOOSE i \in 1..Len(rows) :
                  /\ \A j \in 1..Len(rows) :
                         rows[j].created_at <= rows[i].created_at
                  /\ \A j \in 1..(i - 1) :
                         rows[j].created_at < rows[i].created_at,
              LAMBDA first :
                  Bind(SubSeq(rows, 1, first - 1)
                           \o SubSeq(rows, first + 1, Len(rows)),
                       LAMBDA others : <<rows[first]>> \o NewestFirst(others)))

getAllImages == NewestFirst(images)

deleteImageById(id) == SelectSeq(images, LAMBDA row : row.id # id)

incrementUseCount(id) ==
    [i \in 1..Len(images) |->
        IF images[i].id = id
        THEN [images[i] EXCEPT !.use_count = images[i].use_count + 1]
        ELSE images[i]]

clearImagesByNameAndUserId(name, userId) ==
    SelectSeq(images, LAMBDA row : ~(row.name = name /\ row.user_id = userId))

\* the digits a word starts with
RECURSIVE DigitPrefix(_)
DigitPrefix(word) ==
    IF word = <<>> \/ Head(word) \notin Digits THEN <<>>
    ELSE <<Head(word)>> \o DigitPrefix(Tail(word))

\* parseInt(token) of a word that may be undefined: no value stands for NaN
parseIntOrNaN(token) ==
    IF token = {} THEN {}
    ELSE LET word == CHOOSE w \in token : TRUE
             signed == word # <<>> /\ Head(word) \in {"-", "+"}
             digits == DigitPrefix(IF signed THEN Tail(word) ELSE word)
         IN  IF digits = <<>> THEN {}
             ELSE IF signed /\ Head(word) = "-" THEN {0 - parseDigits(digits)}
             ELSE {parseDigits(digits)}

\* context.user_id.toString()
UserIdOf(context) == <<toString(context.user_id)>>

\* currentGroupId.toString() in a group chat, null otherwise
GroupIdOf(context) == {toString(g) : g \in currentGroupId(context)}

isGroupChat(context) == currentGroupId(context) # {}

\* the test at the head of the message handler: the sender is on the
\* allowlist or writes in a group that is
PassesAllowlist(context) ==
    \/ context.user_id \in allowlist.users
    \/ \E g \in currentGroupId(context) : g \in allowlist.groups

resolveImageTarget(image) == resolveUserTarget(image.user_id)

\* ensurePermission: a refusal sends the failure message
ensurePermission(target, action, context, cache, lookup, now) ==
    Bind(canAccess(context, target, action, cache, lookup, now), LAMBDA check :
        [allowed |-> check.ret = "true", cache |-> check.cache,
         sent |-> IF check.ret = "true" THEN 0 ELSE 1])

RECURSIVE filterImagesByAction(_, _, _, _, _, _)
filterImagesByAction(rows, action, context, cache, lookup, now) ==
    IF ~config.enablePolicyAuth \/ rows = <<>>
    THEN [images |-> rows, cache |-> cache]
    ELSE Bind(canAccess(context, resolveImageTarget(Head(rows)), action,
                        cache, lookup, now), LAMBDA check :
             Bind(filterImagesByAction(Tail(rows), action, context,
                                       check.cache, lookup, now), LAMBDA rest :
                 [images |-> IF check.ret = "true"
                             THEN <<Head(rows)>> \o rest.images
                             ELSE rest.images,
                  cache |-> rest.cache]))

\* the image files are left as they are unless the handler says otherwise
ImageOutcome(sent, table, cache, returned, denied) ==
    [sent |-> sent, images |-> table, cache |-> cache, returned |-> returned,
     denied |-> denied, files |-> disk.files]

WithFiles(outcome, files) == [outcome EXCEPT !.files = files]

\* deleteEmoji: the image files after it.  getImagesByUser(sender) gives the
\* rows of the sender, of 'chat-null' and of 'global' in the table as it is
\* at the call; deleteImage unlinks the file if it exists
deleteEmoji(context, image, table, files) ==
    IF \E i \in 1..Len(table) :
           /\ \/ table[i].user_id = UserIdOf(context)
              \/ table[i].user_id = ChatId({})
              \/ table[i].user_id = <<"global">>
           /\ table[i].file_path = image.file_path
    THEN files
    ELSE files \ {image.file_path}

\* images.forEach((img) => deleteEmoji(context, img))
RECURSIVE deleteEmojis(_, _, _, _)
deleteEmojis(context, rows, table, files) ==
    IF rows = <<>> THEN files
    ELSE deleteEmojis(context, Tail(rows), table,
                      deleteEmoji(context, Head(rows), table, files))

\* the handler returns before it does anything
Ignored(cache) == ImageOutcome(0, images, cache, <<>>, FALSE)

\* random(items) when Math.random() falls into the pick-th part
random(items, pick) == items[((pick - 1) % Len(items)) + 1]

\* save: an attachment is "ok" or "fail" as its download goes; a failed
\* download rejects Promise.all and the other attachments are still inserted
save(userId, name, attachments, context, cache, lookup, now) ==
    LET check == ensurePermission(resolveUserTarget(userId), "create",
                                  context, cache, lookup, now)
        ok == SelectSeq(attachments, LAMBDA a : a.download = "ok")
        rows == [k \in 1..Len(ok) |->
                    ImageRecord(10 * (calls + 1) + k, name,
                                downloadImage(userId, ok[k].file), userId, now,
                                UserIdOf(context))]
    IN  CASE name = "" -> Ignored(cache)
          [] ~check.allowed ->
                ImageOutcome(check.sent, images, check.cache, <<>>, TRUE)
          [] attachments = <<>> -> Ignored(check.cache)
          [] OTHER ->
                WithFiles(
                    ImageOutcome(IF Len(ok) < Len(attachments) THEN 1
                                 ELSE IF isGroupChat(context) THEN 0 ELSE 1,
                                 images \o rows, check.cache, <<>>, FALSE),
                    disk.files
                        \cup {rows[k].file_path : k \in 1..Len(rows)})

\* the three save prefixes: a group save outside a group chat does nothing
saveCommand(kind, name, attachments, context, cache, lookup, now) ==
    CASE kind = "globalSave" ->
            save(<<"global">>, name, attachments, context, cache, lookup, now)
      [] kind = "groupSave" /\ isGroupChat(context) ->
            save(ChatId(GroupIdOf(context)), name, attachments, context, cache,
                 lookup, now)
      [] kind = "save" ->
            save(UserIdOf(context), name, attachments, context, cache, lookup,
                 now)
      [] OTHER -> Ignored(cache)

\* the use prefix; config.reactOnNotFound is not set
use(name, context, cache, lookup, now, pick) ==
    LET found == filterImagesByAction(
                     getImagesByNameAndUser(name, UserIdOf(context),
                                            GroupIdOf(context), TRUE),
                     "read", context, cache, lookup, now)
        selectedImage == random(found.images, pick)
    IN  CASE name = "" -> Ignored(cache)
          [] found.images = <<>> -> Ignored(found.cache)
          [] OTHER ->
                ImageOutcome(1, incrementUseCount(selectedImage.id),
                             found.cache, <<selectedImage>>, FALSE)

\* <name> [page]: the images of a name, twenty to a page
lookupName(name, pageToken, context, cache, lookup, now) ==
    LET parsed == parseIntOrNaN(pageToken)
        page == IF parsed \in {{}, {0}} THEN 1 ELSE CHOOSE p \in parsed : TRUE
        pageSize == 20
        found == filterImagesByAction(
                     getImagesByNameAndUser(name, UserIdOf(context),
                                            GroupIdOf(context), TRUE),
                     "read", context, cache, lookup, now)
        from == (page - 1) * pageSize
        upto == IF page * pageSize < Len(found.images) THEN page * pageSize
                ELSE Len(found.images)
    IN  CASE found.images = <<>> ->
                ImageOutcome(1, images, found.cache, <<>>, FALSE)
          [] page < 1 \/ from >= Len(found.images) ->
                ImageOutcome(1, images, found.cache, <<>>, FALSE)
          [] OTHER ->
                ImageOutcome(1, images, found.cache,
                             SubSeq(found.images, from + 1, upto), FALSE)

\* scope.replace(/[/,]+/g, ' ').split(/\s+/).filter(Boolean)
RECURSIVE scopeWords(_, _)
scopeWords(scope, piece) ==
    IF scope = <<>> THEN IF piece = <<>> THEN <<>> ELSE <<piece>>
    ELSE IF Head(scope) \in {"/", ","}
         THEN (IF piece = <<>> THEN <<>> ELSE <<piece>>)
                  \o scopeWords(Tail(scope), <<>>)
         ELSE scopeWords(Tail(scope), Append(piece, Head(scope)))

includesFlag(scope, letters, words, chars) ==
    LET letterMode == /\ scope # <<>>
                      /\ \A i \in 1..Len(scope) : scope[i] \in {"p", "c", "g", "/"}
        pieces == scopeWords(scope, <<>>)
    IN  \/ letterMode /\ \E i \in 1..Len(scope) : scope[i] \in letters
        \/ \E k \in 1..Len(pieces) : Join(pieces[k]) \in words
        \/ \E i \in 1..Len(scope) : scope[i] \in chars

\* the names and user_ids of rows in the order they first appear
RECURSIVE groupEntries(_, _)
groupEntries(rows, seen) ==
    IF rows = <<>> THEN <<>>
    ELSE LET key == <<Head(rows).name, Head(rows).user_id>>
         IN  IF key \in seen THEN groupEntries(Tail(rows), seen)
             ELSE <<key>> \o groupEntries(Tail(rows), seen \cup {key})

\* list [page] [scope] and, for an admin, listall: one image of every name
\* and user_id, fifty to a page; the two characters that ask for the global
\* images are written by their code points
list(subcommand, pageToken, scopeToken, context, cache, lookup, now, pick) ==
    LET parsed == parseIntOrNaN(pageToken)
        page == IF parsed \in {{}, {0}} THEN 1 ELSE CHOOSE p \in parsed : TRUE
        scope == IF scopeToken # {} THEN CHOOSE w \in scopeToken : TRUE
                 ELSE IF pageToken = {} \/ parsed \notin {{}, {0}}
                      THEN <<"p", "c", "g">>
                      ELSE CHOOSE w \in pageToken : TRUE
        fetchPersonal == includesFlag(scope, {"p"},
                             {"p", "personal", "person", "private", "self",
                              "user"}, {"私", "自"})
        fetchGroup == includesFlag(scope, {"c"},
                          {"c", "group", "chat", "channel", "guild"}, {"群"})
        fetchGlobal == includesFlag(scope, {"g"},
                           {"g", "global", "all", "public"},
                           {"U+516C", "U+5168"})
        rawImages == IF subcommand = "list"
                     THEN getImagesByUser(
                              IF fetchPersonal THEN {UserIdOf(context)} ELSE {},
                              IF isGroupChat(context) /\ fetchGroup
                              THEN GroupIdOf(context) ELSE {},
                              fetchGlobal)
                     ELSE getAllImages
        found == filterImagesByAction(rawImages, "read", context, cache, lookup,
                                      now)
        entries == groupEntries(found.images, {})
        from == (page - 1) * 50
        upto == IF page * 50 < Len(entries) THEN page * 50 ELSE Len(entries)
        shown == [k \in 1..(upto - from) |->
                    random(SelectSeq(found.images, LAMBDA row :
                               <<row.name, row.user_id>> = entries[from + k]),
                           pick)]
    IN  CASE found.images = <<>> ->
                ImageOutcome(1, images, found.cache, <<>>, FALSE)
          [] page < 1 \/ from >= Len(entries) ->
                ImageOutcome(1, images, found.cache, <<>>, FALSE)
          [] OTHER -> ImageOutcome(1, images, found.cache, shown, FALSE)

\* clear: every image of a name under one user_id
clear(userId, name, context, cache, lookup, now) ==
    LET check == ensurePermission(resolveUserTarget(userId), "remove", context,
                                  cache, lookup, now)
    IN  CASE name = "" -> ImageOutcome(1, images, cache, <<>>, FALSE)
          [] ~check.allowed ->
                ImageOutcome(check.sent, images, check.cache, <<>>, TRUE)
          [] OTHER ->
                WithFiles(
                    ImageOutcome(1, clearImagesByNameAndUserId(name, userId),
                                 check.cache, <<>>, FALSE),
                    deleteEmojis(context,
                                 getImagesByNameAndUser(name, userId, {},
                                                        FALSE),
                                 clearImagesByNameAndUserId(name, userId),
                                 disk.files))

\* remove whose check is made on the sender's personal scope
remove_ChecksSender(name, indexToken, context, cache, lookup, now) ==
    LET parsed == parseIntOrNaN(indexToken)
        index == CHOOSE n \in parsed : TRUE
        found == getImagesByNameAndUser(name, UserIdOf(context),
                                        GroupIdOf(context), isAdmin(context))
        imageToDelete == found[index]
        check == ensurePermission(resolveUserTarget(UserIdOf(context)),
                                  "remove", context, cache, lookup, now)
    IN  CASE name = "" -> ImageOutcome(1, images, cache, <<>>, FALSE)
          [] parsed = {} \/ index < 1 ->
                ImageOutcome(1, images, cache, <<>>, FALSE)
          [] found = <<>> -> ImageOutcome(1, images, cache, <<>>, FALSE)
          [] index > Len(found) -> ImageOutcome(1, images, cache, <<>>, FALSE)
          [] ~check.allowed ->
                ImageOutcome(check.sent, images, check.cache, <<>>, TRUE)
          [] OTHER ->
                WithFiles(
                    ImageOutcome(1, deleteImageById(imageToDelete.id),
                                 check.cache, <<>>, FALSE),
                    deleteEmoji(context, imageToDelete,
                                deleteImageById(imageToDelete.id), disk.files))

\* remove <name> <index>: the index counts the sender's images of that name,
\* those of the current group and, for an admin, the global ones
remove(name, indexToken, context, cache, lookup, now) ==
    LET parsed == parseIntOrNaN(indexToken)
        index == CHOOSE n \in parsed : TRUE
        found == getImagesByNameAndUser(name, UserIdOf(context),
                                        GroupIdOf(context), isAdmin(context))
        imageToDelete == found[index]
        check == ensurePermission(resolveImageTarget(imageToDelete), "remove",
                                  context, cache, lookup, now)
    IN  CASE name = "" -> ImageOutcome(1, images, cache, <<>>, FALSE)
          [] parsed = {} \/ index < 1 ->
                ImageOutcome(1, images, cache, <<>>, FALSE)
          [] found = <<>> -> ImageOutcome(1, images, cache, <<>>, FALSE)
          [] index > Len(found) -> ImageOutcome(1, images, cache, <<>>, FALSE)
          [] ~check.allowed ->
                ImageOutcome(check.sent, images, check.cache, <<>>, TRUE)
          [] OTHER ->
                WithFiles(
                    ImageOutcome(1, deleteImageById(imageToDelete.id),
                                 check.cache, <<>>, FALSE),
                    deleteEmoji(context, imageToDelete,
                                deleteImageById(imageToDelete.id), disk.files))

\* the remove checks of transfer, one image after the other
RECURSIVE ensureEach(_, _, _, _, _)
ensureEach(rows, context, cache, lookup, now) ==
    IF rows = <<>> THEN [allowed |-> TRUE, cache |-> cache, sent |-> 0]
    ELSE Bind(ensurePermission(resolveImageTarget(Head(rows)), "remove",
                               context, cache, lookup, now), LAMBDA check :
             IF check.allowed
             THEN ensureEach(Tail(rows), context, check.cache, lookup, now)
             ELSE check)

\* UPDATE images SET user_id = ? WHERE id = ?, for every id of the list
transferImagesOwnership(idList, newUserId) ==
    [i \in 1..Len(images) |->
        IF images[i].id \in idList
        THEN [images[i] EXCEPT !.user_id = newUserId]
        ELSE images[i]]

\* index !== undefined && (isNaN(index) || index < 1 || index > length)
\* is false
ValidIndex(parsed, length) ==
    \E index \in parsed : index >= 1 /\ index <= length

\* transfer whose create check comes after the images have been moved
transfer_MovesFirst(target, name, indexToken, context, cache, lookup, now) ==
    Bind(getImagesByNameAndUser(name, UserIdOf(context), {}, FALSE),
         LAMBDA found :
    IF \/ name = ""
       \/ found = <<>>
       \/ indexToken # {} /\ ~ValidIndex(parseIntOrNaN(indexToken), Len(found))
    THEN ImageOutcome(1, images, cache, <<>>, FALSE)
    ELSE
    Bind(IF indexToken = {} THEN found
         ELSE <<found[CHOOSE n \in parseIntOrNaN(indexToken) : TRUE]>>,
         LAMBDA imagesToTransfer :
    Bind(ensureEach(imagesToTransfer, context, cache, lookup, now),
         LAMBDA removal :
    IF ~removal.allowed
    THEN ImageOutcome(removal.sent, images, removal.cache, <<>>, TRUE)
    ELSE IF \/ target = {"group"} /\ ~isGroupChat(context)
            \/ target \notin {{"global"}, {"group"}}
    THEN ImageOutcome(1, images, removal.cache, <<>>, FALSE)
    ELSE
    Bind(IF target = {"global"} THEN <<"global">>
         ELSE ChatId(GroupIdOf(context)),
         LAMBDA newUserId :
    Bind(ensurePermission(resolveUserTarget(newUserId), "create", context,
                          removal.cache, lookup, now),
         LAMBDA creation :
    IF ~creation.allowed
    THEN ImageOutcome(creation.sent, transferImagesOwnership(
                 {imagesToTransfer[k].id : k \in 1..Len(imagesToTransfer)},
                 newUserId), creation.cache, <<>>, TRUE)
    ELSE ImageOutcome(1,
             transferImagesOwnership(
                 {imagesToTransfer[k].id : k \in 1..Len(imagesToTransfer)},
                 newUserId),
             creation.cache, <<>>, FALSE))))))

\* transfer {group/global} <name> [index]: the sender's personal images of
\* the name, or the index-th of them, get the user_id of the destination
transfer(target, name, indexToken, context, cache, lookup, now) ==
    Bind(getImagesByNameAndUser(name, UserIdOf(context), {}, FALSE),
         LAMBDA found :
    IF \/ name = ""
       \/ found = <<>>
       \/ indexToken # {} /\ ~ValidIndex(parseIntOrNaN(indexToken), Len(found))
    THEN ImageOutcome(1, images, cache, <<>>, FALSE)
    ELSE
    Bind(IF indexToken = {} THEN found
         ELSE <<found[CHOOSE n \in parseIntOrNaN(indexToken) : TRUE]>>,
         LAMBDA imagesToTransfer :
    Bind(ensureEach(imagesToTransfer, context, cache, lookup, now),
         LAMBDA removal :
    IF ~removal.allowed
    THEN ImageOutcome(removal.sent, images, removal.cache, <<>>, TRUE)
    ELSE IF \/ target = {"group"} /\ ~isGroupChat(context)
            \/ target \notin {{"global"}, {"group"}}
    THEN ImageOutcome(1, images, removal.cache, <<>>, FALSE)
    ELSE
    Bind(IF target = {"global"} THEN <<"global">>
         ELSE ChatId(GroupIdOf(context)),
         LAMBDA newUserId :
    Bind(ensurePermission(resolveUserTarget(newUserId), "create", context,
                          removal.cache, lookup, now),
         LAMBDA creation :
    IF ~creation.allowed
    THEN ImageOutcome(creation.sent, images, creation.cache, <<>>, TRUE)
    ELSE ImageOutcome(1,
             transferImagesOwnership(
                 {imagesToTransfer[k].id : k \in 1..Len(imagesToTransfer)},
                 newUserId),
             creation.cache, <<>>, FALSE))))))

\* the utility command: its subcommands about images in the order the code
\* tests them; a word that names no subcommand is looked up as a name, and
\* the word after it is the page when it is a number
utilsCommand(m, cache, lookup, now, pick) ==
    CASE m.subcommand = "list"
             \/ (m.subcommand = "listall" /\ isAdmin(m.context)) ->
            list(m.subcommand, m.arg, m.scope, m.context, cache, lookup, now,
                 pick)
      [] m.subcommand \in {"clear", "cl"} ->
            clear(UserIdOf(m.context), m.name, m.context, cache, lookup, now)
      [] m.subcommand \in {"cleargroup", "cgr"} /\ isGroupChat(m.context) ->
            clear(ChatId(GroupIdOf(m.context)), m.name, m.context, cache,
                  lookup, now)
      [] m.subcommand \in {"clearglobal", "cgl"} /\ isAdmin(m.context) ->
            clear(<<"global">>, m.name, m.context, cache, lookup, now)
      [] m.subcommand \in {"remove", "delete", "rm"} ->
            remove(m.name, m.arg, m.context, cache, lookup, now)
      [] m.subcommand \in {"transfer", "mv"} ->
            transfer(m.scope, m.name, m.arg, m.context, cache, lookup, now)
      [] OTHER ->
            lookupName(m.subcommand, m.arg, m.context, cache, lookup, now)

(***************************************************************************)
(* The image commands as actions.  Every message the bot handles counts as *)
(* a call and takes one tick of the clock.                                 *)
(***************************************************************************)
InGroup(user) == [user_id |-> user, group_id |-> {100}]

InPrivate(user) == [user_id |-> user, group_id |-> {}]

\* an image of a message: its file name, and how its download goes
Attachment(fileName, download) == [file |-> fileName, download |-> download]

SaveInputs ==
    {[context |-> InGroup(1), kind |-> "groupSave", name |-> "c",
      attachments |-> <<Attachment("x.png", "ok")>>],
     [context |-> InGroup(1), kind |-> "save", name |-> "a",
      attachments |-> <<Attachment("y.png", "ok"),
                        Attachment("z.png", "fail")>>],
     [context |-> InPrivate(2), kind |-> "globalSave", name |-> "a",
      attachments |-> <<Attachment("x.png", "ok")>>],
     [context |-> InGroup(3), kind |-> "globalSave", name |-> "c",
      attachments |-> <<Attachment("x.png", "ok")>>],
     [context |-> InPrivate(3), kind |-> "save", name |-> "c",
      attachments |-> <<Attachment("x.png", "ok")>>]}

UseInputs ==
    {[context |-> InGroup(1), name |-> "a"],
     [context |-> InPrivate(2), name |-> "a"],
     [context |-> InGroup(3), name |-> "b"]}

UtilsMessage(context, subcommand, name, arg, scope) ==
    [context |-> context, subcommand |-> subcommand, name |-> name,
     arg |-> arg, scope |-> scope]

ListInputs ==
    {UtilsMessage(InGroup(1), "list", "", {}, {}),
     UtilsMessage(InGroup(1), "list", "", {<<"g">>}, {}),
     UtilsMessage(InPrivate(2), "listall", "", {<<"1">>}, {})}

NameInputs ==
    {UtilsMessage(InGroup(1), "a", "", {}, {}),
     UtilsMessage(InGroup(3), "a", "", {<<"2">>}, {}),
     UtilsMessage(InGroup(1), "clearglobal", "a", {}, {})}

ClearImageInputs ==
    {UtilsMessage(InGroup(1), "clear", "a", {}, {}),
     UtilsMessage(InGroup(1), "cleargroup", "a", {}, {}),
     UtilsMessage(InPrivate(2), "clearglobal", "a", {}, {})}

RemoveImageInputs ==
    {UtilsMessage(InGroup(1), "remove", "a", {<<"1">>}, {}),
     UtilsMessage(InGroup(1), "rm", "a", {<<"2">>}, {}),
     UtilsMessage(InPrivate(2), "remove", "a", {<<"2">>}, {}),
     UtilsMessage(InGroup(1), "remove", "a", {<<"x">>}, {})}

\* messages that start with the utility prefix and 'transfer' or 'mv'
TransferInputs ==
    {UtilsMessage(InGroup(1), "transfer", "b", {}, {"group"}),
     UtilsMessage(InGroup(1), "mv", "a", {<<"1">>}, {"global"}),
     UtilsMessage(InPrivate(2), "transfer", "a", {}, {"group"}),
     UtilsMessage(InGroup(1), "transfer", "a", {<<"2">>}, {"group"}),
     UtilsMessage(InGroup(1), "transfer", "b", {}, {"nowhere"})}

\* the parts of Math.random()'s range the model tells apart
Picks == {1, 2}

\* what a handled message leaves behind
ImageStep(op, m, out) ==
    /\ calls' = calls + 1
    /\ clock' = clock + 1
    /\ images' = out.images
    /\ groupAdminCache' = out.cache
    /\ handled' = [op |-> op, message |-> m, sent |-> out.sent,
                   returned |-> out.returned, denied |-> out.denied]
    /\ disk' = [disk EXCEPT !.files = out.files]
    /\ UNCHANGED <<custom, defaults, file, nextId, last, pending, config,
                   allowlist, proc>>

Save ==
    /\ calls < MaxCalls
    /\ \E m \in SaveInputs :
        \E out \in {IF PassesAllowlist(m.context)
                    THEN saveCommand(m.kind, m.name, m.attachments, m.context,
                                     groupAdminCache, lookup, clock)
                    ELSE Ignored(groupAdminCache) : lookup \in LookupInputs} :
            ImageStep("save", m, out)

Use ==
    /\ calls < MaxCalls
    /\ \E m \in UseInputs :
        \E out \in {IF PassesAllowlist(m.context)
                    THEN use(m.name, m.context, groupAdminCache, lookup, clock,
                             pick)
                    ELSE Ignored(groupAdminCache) :
                        lookup \in LookupInputs, pick \in Picks} :
            ImageStep("use", m, out)

\* the outcomes of a message that starts with the utility prefix
UtilsOutcomes(m, picks) ==
    {IF PassesAllowlist(m.context)
     THEN utilsCommand(m, groupAdminCache, lookup, clock, pick)
     ELSE Ignored(groupAdminCache) : lookup \in LookupInputs, pick \in picks}

List ==
    /\ calls < MaxCalls
    /\ \E m \in ListInputs :
        \E out \in UtilsOutcomes(m, Picks) : ImageStep("list", m, out)

\* nothing is drawn at random for a lookup, a clear or a remove
Lookup ==
    /\ calls < MaxCalls
    /\ \E m \in NameInputs :
        \E out \in UtilsOutcomes(m, {1}) : ImageStep("lookup", m, out)

Clear ==
    /\ calls < MaxCalls
    /\ \E m \in ClearImageInputs :
        \E out \in UtilsOutcomes(m, {1}) : ImageStep("clear", m, out)

Remove ==
    /\ calls < MaxCalls
    /\ \E m \in RemoveImageInputs :
        \E out \in UtilsOutcomes(m, {1}) : ImageStep("remove", m, out)

Transfer ==
    /\ calls < MaxCalls
    /\ \E m \in TransferInputs :
        \E out \in UtilsOutcomes(m, {1}) : ImageStep("transfer", m, out)

\* a policy file that hides the global images and leaves the images of a
\* group to its admins
ImagePolicyFile ==
    FileOf("json",
        <<[id |-> 41, scope |-> "global", selector |-> [type |-> "everyone"],
           permissions |->
               [read |-> "false", create |-> "true", remove |-> "true"],
           priority |-> 1, createdAt |-> 0],
          [id |-> 42, scope |-> "group", selector |-> [type |-> "groupadmin"],
           permissions |->
               [read |-> "true", create |-> "true", remove |-> "true"],
           priority |-> 5, createdAt |-> 0],
          [id |-> 43, scope |-> "group", selector |-> [type |-> "everyone"],
           permissions |->
               [read |-> "false", create |-> "false", remove |-> "false"],
           priority |-> 1, createdAt |-> 0]>>)

\* the images table found at start-up
StoredImages ==
    <<[ImageRecord(1, "a", downloadImage(<<"global">>, "x.png"),
                   <<"global">>, 1, <<"2">>) EXCEPT !.use_count = 2],
      ImageRecord(2, "a", downloadImage(<<"chat-", "100">>, "x.png"),
                  <<"chat-", "100">>, 2, <<"1">>),
      ImageRecord(3, "a", downloadImage(<<"1">>, "x.png"), <<"1">>, 3,
                  <<"1">>),
      ImageRecord(4, "b", downloadImage(<<"1">>, "x.png"), <<"1">>, 4,
                  <<"1">>),
      ImageRecord(5, "a", downloadImage(<<"2">>, "x.png"), <<"2">>, 5,
                  <<"2">>)>>

\* the bot after start-up with images in its table
InitImages ==
    \E start \in {[f |-> FileOf("absent", <<>>), auth |-> TRUE],
                  [f |-> PolicyFile, auth |-> TRUE],
                  [f |-> ImagePolicyFile, auth |-> TRUE],
                  [f |-> ImagePolicyFile, auth |-> FALSE]} :
        /\ defaults = dedupeRules(BuiltinDefaults, "oldest")
        /\ custom = LoadedCustom(start.f)
        /\ file = LoadedFile(start.f)
        /\ clock = 10
        /\ nextId = 1
        /\ calls = 0
        /\ last = [op |-> "createPolicyManager", found |-> start.f,
                   defaultRules |-> BuiltinDefaults, threw |-> FALSE]
        /\ pending = [phase |-> "idle"]
        /\ images = StoredImages
        /\ groupAdminCache = <<>>
        /\ config = [enablePolicyAuth |-> start.auth, admins |-> {2}]
        /\ allowlist = [users |-> {1, 2}, groups |-> {100}]
        /\ handled = [op |-> "none"]
        /\ disk = Disk(allowlist,
                       {StoredImages[k].file_path :
                           k \in 1..Len(StoredImages)})
        /\ proc = Running

NextImages ==
    \/ Save
    \/ Use
    \/ List
    \/ Lookup
    \/ Clear
    \/ Remove
    \/ Transfer

SpecImages == InitImages /\ [][NextImages]_vars

(***************************************************************************)
(* The allowlist commands.  'enable' and 'disable' without arguments put   *)
(* the current group on the allowlist or take it off; 'allowlist add' and  *)
(* 'allowlist remove', for a global admin, do so with the mentioned user.  *)
(* The result of a handler is the number of messages sent, the allowlist   *)
(* in memory after it and the allowlist file after it.  sendOk tells       *)
(* whether napcat.send_msg resolves; when it rejects, the handler ends in  *)
(* the catch clause of the message handler.                                *)
(***************************************************************************)
AllowlistOutcome(sent, memory, written) ==
    [sent |-> sent, allowlist |-> memory, file |-> written, ignored |-> FALSE]

\* a handler that only answers
Answered(sendOk) ==
    AllowlistOutcome(IF sendOk THEN 1 ELSE 0, allowlist, disk.allowlist)

\* the change of the allowlist, then the confirmation, and writeFile when
\* the confirmation has been sent
ChangedAllowlist(memory, sendOk) ==
    AllowlistOutcome(IF sendOk THEN 1 ELSE 0, memory,
                     IF sendOk THEN stringifyAllowlist(memory)
                     ELSE disk.allowlist)

\* enable / disable without arguments
groupAllowlist(isEnable, context, sendOk) ==
    LET group == CHOOSE g \in currentGroupId(context) : TRUE
        exists == group \in allowlist.groups
    IN  CASE ~isGroupChat(context) -> Answered(sendOk)
          [] isEnable /\ exists -> Answered(sendOk)
          [] ~isEnable /\ ~exists -> Answered(sendOk)
          [] isEnable ->
                ChangedAllowlist([allowlist EXCEPT !.groups = @ \cup {group}],
                                 sendOk)
          [] OTHER ->
                ChangedAllowlist([allowlist EXCEPT !.groups = @ \ {group}],
                                 sendOk)

\* allowlist [add/remove] @user, for a global admin
userAllowlist(operation, mention, sendOk) ==
    LET parsed == parseIntOrNaN(mention)
        targetId == CHOOSE n \in parsed : TRUE
    IN  CASE operation = "" -> Answered(sendOk)
          [] operation \notin {"add", "remove"} -> Answered(sendOk)
          [] mention = {} -> Answered(sendOk)
          [] parsed = {} -> Answered(sendOk)
          [] operation = "add" /\ targetId \in allowlist.users ->
                Answered(sendOk)
          [] operation = "add" ->
                ChangedAllowlist([allowlist EXCEPT !.users = @ \cup {targetId}],
                                 sendOk)
          [] targetId \notin allowlist.users -> Answered(sendOk)
          [] OTHER ->
                ChangedAllowlist([allowlist EXCEPT !.users = @ \ {targetId}],
                                 sendOk)

\* the message handler for a message with the utility prefix and one of
\* these subcommands; a sender who is no global admin gets 'allowlist'
\* looked up as the name of an image
allowlistCommand(m, cache, lookup, now, sendOk) ==
    CASE ~PassesAllowlist(m.context) ->
            [sent |-> 0, allowlist |-> allowlist, file |-> disk.allowlist,
             ignored |-> TRUE]
      [] m.subcommand \in {"enable", "disable"} ->
            groupAllowlist(m.subcommand = "enable", m.context, sendOk)
      [] m.subcommand = "allowlist" /\ isAdmin(m.context) ->
            userAllowlist(m.name, m.arg, sendOk)
      [] OTHER ->
            Bind(utilsCommand(m, cache, lookup, now, 1), LAMBDA out :
                AllowlistOutcome(IF sendOk THEN out.sent ELSE 0, allowlist,
                                 disk.allowlist))

GroupAllowlistInputs ==
    {UtilsMessage(InGroup(1), "enable", "", {}, {}),
     UtilsMessage(InGroup(1), "disable", "", {}, {}),
     UtilsMessage(InGroup(3), "disable", "", {}, {}),
     UtilsMessage([user_id |-> 2, group_id |-> {200}], "enable", "", {}, {}),
     UtilsMessage(InPrivate(2), "enable", "", {}, {})}

UserAllowlistInputs ==
    {UtilsMessage(InPrivate(2), "allowlist", "", {}, {}),
     UtilsMessage(InPrivate(2), "allowlist", "add", {<<"3">>}, {}),
     UtilsMessage(InPrivate(2), "allowlist", "add", {<<"1">>}, {}),
     UtilsMessage(InPrivate(2), "allowlist", "remove", {<<"1">>}, {}),
     UtilsMessage(InPrivate(2), "allowlist", "remove", {<<"x">>}, {}),
     UtilsMessage(InPrivate(2), "allowlist", "add", {}, {}),
     UtilsMessage(InPrivate(2), "allowlist", "clear", {<<"1">>}, {}),
     UtilsMessage(InPrivate(1), "allowlist", "add", {<<"3">>}, {})}

\* what a handled allowlist message leaves behind
AllowlistStep(op, m, out) ==
    /\ calls' = calls + 1
    /\ clock' = clock + 1
    /\ allowlist' = out.allowlist
    /\ disk' = [disk EXCEPT !.allowlist = out.file]
    /\ handled' = [op |-> op, message |-> m, sent |-> out.sent,
                   ignored |-> out.ignored]
    /\ UNCHANGED <<custom, defaults, file, nextId, last, pending, images,
                   groupAdminCache, config, proc>>

AllowlistOutcomes(m) ==
    {allowlistCommand(m, groupAdminCache, lookup, clock, sendOk) :
        lookup \in LookupInputs, sendOk \in BOOLEAN}

GroupAllowlist ==
    /\ calls < MaxCalls
    /\ \E m \in GroupAllowlistInputs :
        \E out \in AllowlistOutcomes(m) : AllowlistStep("group", m, out)

UserAllowlist ==
    /\ calls < MaxCalls
    /\ \E m \in UserAllowlistInputs :
        \E out \in AllowlistOutcomes(m) : AllowlistStep("user", m, out)

\* the bot after start-up with the allowlist it has loaded: an empty one,
\* one with the admin only, one with two users and a group
InitAllowlist ==
    \E loaded \in {[users |-> {}, groups |-> {}],
                   [users |-> {2}, groups |-> {}],
                   [users |-> {1, 2}, groups |-> {100}]} :
        /\ defaults = dedupeRules(BuiltinDefaults, "oldest")
        /\ custom = LoadedCustom(FileOf("absent", <<>>))
        /\ file = LoadedFile(FileOf("absent", <<>>))
        /\ clock = 10
        /\ nextId = 1
        /\ calls = 0
        /\ last = [op |-> "createPolicyManager",
                   found |-> FileOf("absent", <<>>),
                   defaultRules |-> BuiltinDefaults, threw |-> FALSE]
        /\ pending = [phase |-> "idle"]
        /\ images = <<>>
        /\ groupAdminCache = <<>>
        /\ config = [enablePolicyAuth |-> TRUE, admins |-> {2}]
        /\ allowlist = loaded
        /\ handled = [op |-> "none"]
        /\ disk = Disk(loaded, {})
        /\ proc = Running

NextAllowlist ==
    \/ GroupAllowlist
    \/ UserAllowlist

SpecAllowlist == InitAllowlist /\ [][NextAllowlist]_vars

(***************************************************************************)
(* Shutdown.  proc holds the flag shutdownInitiated and the time it was    *)
(* set, whether socketClose has been signalled (socket), the time the      *)
(* timer of the SIGINT handler is due (-1: not set) and whether it has     *)
(* fired, whether the handler is suspended at its await, the database and  *)
(* the exit code of the process (none while it runs).  What follows an     *)
(* await runs as soon as its promise settles, before any other event.      *)
(***************************************************************************)
\* setTimeout(resolve, 5000)
ShutdownTimeout == 5000

\* Promise.race([socketClose.promise, timeout]) settled only when both have
raceSettled_Both(p) == p.socket = "closed" /\ p.timedOut

\* Promise.race([socketClose.promise, timeout]) has settled
raceSettled(p) == p.socket = "closed" \/ p.timedOut

\* the rest of the SIGINT handler once the race has settled: closeDb() and
\* process.exit(0)
afterRace(p) ==
    IF p.awaiting /\ raceSettled(p)
    THEN [p EXCEPT !.awaiting = FALSE, !.db = "closed", !.exit = {0}]
    ELSE p

\* the SIGINT handler up to its await, or up to process.exit(1)
onSigint(p, now) ==
    IF p.shutdownInitiated THEN [p EXCEPT !.exit = {1}]
    ELSE afterRace([p EXCEPT !.shutdownInitiated = TRUE,
                             !.initiatedAt = now,
                             !.timer = now + ShutdownTimeout,
                             !.awaiting = TRUE])

ProcStep(next, event) ==
    /\ proc.exit = {}
    /\ proc' = next
    /\ last' = [op |-> event]
    /\ UNCHANGED <<custom, defaults, file, clock, nextId, calls, pending,
                   images, groupAdminCache, config, allowlist, handled, disk>>

\* the user presses Ctrl-C
Sigint ==
    /\ proc.exit = {}
    /\ ProcStep(onSigint(proc, clock), "SIGINT")

\* napcat emits socket.close, after disconnect() or because the connection
\* is lost: socketClose.signal()
SocketClosed ==
    /\ proc.socket = "open"
    /\ ProcStep(afterRace([proc EXCEPT !.socket = "closed"]), "socket.close")

\* the timer of the SIGINT handler fires
Timeout ==
    /\ proc.timer # -1
    /\ clock >= proc.timer
    /\ ~proc.timedOut
    /\ ProcStep(afterRace([proc EXCEPT !.timedOut = TRUE]), "timeout")

\* a second passes: while the bot runs, and until the timer is due
Tick ==
    /\ proc.exit = {}
    /\ IF proc.shutdownInitiated THEN clock < proc.timer
       ELSE clock < 1 + MaxTicks * 1000
    /\ clock' = clock + 1000
    /\ last' = [op |-> "tick"]
    /\ UNCHANGED <<custom, defaults, file, nextId, calls, pending, images,
                   groupAdminCache, config, allowlist, handled, disk, proc>>

InitShutdown ==
    /\ defaults = dedupeRules(BuiltinDefaults, "oldest")
    /\ custom = LoadedCustom(FileOf("absent", <<>>))
    /\ file = LoadedFile(FileOf("absent", <<>>))
    /\ clock = 1
    /\ nextId = 1
    /\ calls = 0
    /\ last = [op |-> "napcat.connect"]
    /\ pending = [phase |-> "idle"]
    /\ images = <<>>
    /\ groupAdminCache = <<>>
    /\ config = [enablePolicyAuth |-> TRUE, admins |-> {2}]
    /\ allowlist = [users |-> {1, 2}, groups |-> {100}]
    /\ handled = [op |-> "none"]
    /\ disk = Disk(allowlist, {})
    /\ proc = Running

NextShutdown ==
    \/ Sigint
    \/ SocketClosed
    \/ Timeout
    \/ Tick

SpecShutdown == InitShutdown /\ [][NextShutdown]_vars

\* time passes, and a timer that is due fires
SpecShutdownFair ==
    SpecShutdown /\ WF_vars(Tick) /\ WF_vars(Timeout)

(***************************************************************************)
(* Vocabulary of the properties.  These definitions say what the rules    *)
(* mean without going through sortRules, ruleKey or pickRule.              *)
(***************************************************************************)
\* the (scope, selector.type, selector.value-or-empty) identity of a rule
IdentityOf(scope, selector) ==
    <<scope, selector.type,
      IF selector.value = {} THEN "" ELSE CHOOSE v \in selector.value : TRUE>>

RuleIdentity(rule) == IdentityOf(rule.scope, rule.selector)

\* positions of the rules of target.scope whose selector matches
Matching(rules, actor, target) ==
    {i \in 1..Len(rules) :
        /\ rules[i].scope = target.scope
        /\ matchesSelector(rules[i].selector, actor, target) = "true"}

\* the matching rules of highest priority and, among these, largest createdAt
Governing(rules, actor, target) ==
    LET M == Matching(rules, actor, target)
    IN  {i \in M :
            \A j \in M :
                \/ rules[j].priority < rules[i].priority
                \/ /\ rules[j].priority = rules[i].priority
                   /\ rules[j].createdAt <= rules[i].createdAt}

\* the decisions the rules at the positions G make for the action
DecisionsOf(rules, G, action) ==
    {JsBool(Boolean(rules[i].permissions[action])) : i \in G}

(***************************************************************************)
(* C1: whenever some custom rule of target.scope matches (actor, target),  *)
(* isAllowed returns the permission of the governing custom rule (highest  *)
(* priority, then newest), whatever the default rules say.                 *)
(***************************************************************************)
C1_CustomOverridesDefault ==
    \A actor \in Actors, target \in Targets, action \in PermissionAction :
        Matching(custom, actor, target) # {} =>
            isAllowed(custom, defaults, actor, target, action)
                \in DecisionsOf(custom, Governing(custom, actor, target),
                                action)

(***************************************************************************)
(* C2: when no custom rule of target.scope matches but a default rule of   *)
(* that scope does, isAllowed returns the permission of the governing      *)
(* default rule.                                                           *)
(***************************************************************************)
C2_FallsBackToDefault ==
    \A actor \in Actors, target \in Targets, action \in PermissionAction :
        (/\ Matching(custom, actor, target) = {}
         /\ Matching(defaults, actor, target) # {}) =>
            isAllowed(custom, defaults, actor, target, action)
                \in DecisionsOf(defaults, Governing(defaults, actor, target),
                                action)

(***************************************************************************)
(* C3: isAllowed returns false for every action whenever neither a custom  *)
(* rule nor a default rule of target.scope matches (actor, target).        *)
(***************************************************************************)
C3_DenyWhenNothingMatches ==
    \A actor \in Actors, target \in Targets, action \in PermissionAction :
        (/\ Matching(custom, actor, target) = {}
         /\ Matching(defaults, actor, target) = {}) =>
            isAllowed(custom, defaults, actor, target, action) = "false"

(***************************************************************************)
(* C4: pickRule returns a matching rule of target.scope of highest         *)
(* priority and, among these, of largest createdAt; it returns none when   *)
(* no rule of that scope matches.                                          *)
(***************************************************************************)
PickRuleSelects(rules, actor, target) ==
    LET picked == pickRule(rules, actor, target)
        G == Governing(rules, actor, target)
    IN  IF G = {} THEN picked.kind = "null"
        ELSE /\ picked.kind = "rule"
             /\ \E i \in G : picked.rule = rules[i]

C4_PickRuleHighestPriorityNewest ==
    \A actor \in Actors, target \in Targets :
        /\ PickRuleSelects(custom, actor, target)
        /\ PickRuleSelects(defaults, actor, target)

(***************************************************************************)
(* C7: when the actor's isGroupAdmin predicate throws or rejects,          *)
(* isAllowed resolves (to false) and does not reject.                      *)
(***************************************************************************)
C7_ThrowingPredicateDenies ==
    \A actor \in Actors, target \in Targets, action \in PermissionAction :
        actor.isGroupAdmin.kind = "throws" =>
            isAllowed(custom, defaults, actor, target, action) # "throw"

(***************************************************************************)
(* C9: every stored custom rule's read, create and remove permission is a  *)
(* strict boolean.                                                         *)
(***************************************************************************)
C9_StoredPermissionsAreBooleans ==
    \A i \in 1..Len(custom), action \in PermissionAction :
        custom[i].permissions[action] \in {"true", "false"}

(***************************************************************************)
(* C5: no two custom rules share a (scope, selector.type,                  *)
(* selector.value-or-empty) identity, and no two default rules do.         *)
(***************************************************************************)
UniqueIdentities(rules) ==
    \A i, j \in 1..Len(rules) :
        RuleIdentity(rules[i]) = RuleIdentity(rules[j]) => i = j

C5_IdentitiesAreUnique ==
    UniqueIdentities(custom) /\ UniqueIdentities(defaults)

\* an update reached a stored rule whose selector value is '' through a
\* selector without value, next to another rule
C5_Witness ==
    /\ last.op \in {"setRulePermissions", "updateSinglePermission"}
    /\ ~last.created
    /\ last.selector.value = {}
    /\ last.rule.selector.value = {""}
    /\ Len(custom) >= 2

PositionOf(rules, id) == CHOOSE i \in 1..Len(rules) : rules[i].id = id

\* rule j is evaluated before rule i: higher priority, or the same priority
\* and newer, or the same priority and createdAt and earlier in the list
EvaluatedBefore(rules, j, i) ==
    \/ rules[j].priority > rules[i].priority
    \/ /\ rules[j].priority = rules[i].priority
       /\ rules[j].createdAt > rules[i].createdAt
    \/ /\ rules[j].priority = rules[i].priority
       /\ rules[j].createdAt = rules[i].createdAt
       /\ j < i

\* the rule at position i matches and every rule of its scope evaluated
\* before it evaluates to no match
FirstToMatch(rules, i, actor, target) ==
    /\ rules[i].scope = target.scope
    /\ matchesSelector(rules[i].selector, actor, target) = "true"
    /\ \A j \in 1..Len(rules) :
           (/\ j # i
            /\ rules[j].scope = target.scope
            /\ EvaluatedBefore(rules, j, i)) =>
               matchesSelector(rules[j].selector, actor, target) = "false"

OfIdentity(rules, identity) ==
    {i \in 1..Len(rules) : RuleIdentity(rules[i]) = identity}

OtherIdentities(rules, identity) ==
    SelectSeq(rules, LAMBDA rule : RuleIdentity(rule) # identity)

\* priority of the default rule of the identity, 0 without such a rule
DefaultPriorityOf(identity) ==
    IF OfIdentity(defaults, identity) = {} THEN 0
    ELSE defaults[CHOOSE i \in OfIdentity(defaults, identity) : TRUE].priority

AddReplaces ==
    LET r == last'.arg
        identity == IdentityOf(r.scope, r.selector)
        now == OfIdentity(custom', identity)
    IN  (/\ last'.op = "addCustomRule"
         /\ calls' = calls + 1
         /\ OfIdentity(custom, identity) # {}) =>
            /\ Cardinality(now) = 1
            /\ \A i \in now :
                /\ custom'[i] = last'.ret
                /\ custom'[i].scope = r.scope
                /\ custom'[i].selector = r.selector
                /\ custom'[i].permissions = r.permissions
                /\ custom'[i].priority
                     = IF r.priority # {} THEN CHOOSE p \in r.priority : TRUE
                       ELSE DefaultPriorityOf(identity)
                /\ custom'[i].createdAt = clock'
                /\ custom'[i].id >= nextId
                /\ \A j \in 1..Len(custom) : custom[j].id # custom'[i].id
            /\ OtherIdentities(custom', identity)
                 = OtherIdentities(custom, identity)

C8_AddReplacesWholeRule == [][AddReplaces]_vars

\* a rule was replaced by one added without a priority, and another rule
\* stayed
C8_Witness ==
    /\ last.op = "addCustomRule"
    /\ last.replaced
    /\ last.arg.priority = {}
    /\ Len(custom) >= 2

(***************************************************************************)
(* C10: setRulePermissions / updateSinglePermission update an existing     *)
(* rule of the identity in place, keeping id, scope and selector, with     *)
(* createdAt refreshed, and return created = false; without such a rule    *)
(* they append a rule with a fresh id and return created = true; the       *)
(* number of custom rules grows by one exactly when created = true.        *)
(***************************************************************************)
UpdateUpserts ==
    LET identity == IdentityOf(last'.scope, last'.selector)
        old == OfIdentity(custom, identity)
        rule == last'.rule
    IN  (/\ last'.op \in {"setRulePermissions", "updateSinglePermission"}
         /\ calls' = calls + 1) =>
            /\ rule.createdAt = clock'
            /\ Len(custom') = Len(custom) + (IF last'.created THEN 1 ELSE 0)
            /\ IF old # {}
               THEN /\ ~last'.created
                    /\ \E i \in old :
                        /\ custom' = [custom EXCEPT ![i] = rule]
                        /\ rule.id = custom[i].id
                        /\ rule.scope = custom[i].scope
                        /\ rule.selector = custom[i].selector
               ELSE /\ last'.created
                    /\ custom' = Append(custom, rule)
                    /\ rule.id >= nextId
                    /\ \A j \in 1..Len(custom) : custom[j].id # rule.id

C10_UpdateInPlaceOrAppend == [][UpdateUpserts]_vars

\* an in-place update, at time 2, of a rule created in this run, next to
\* another rule
C10_Witness ==
    /\ last.op = "updateSinglePermission"
    /\ ~last.created
    /\ last.rule.createdAt = 2
    /\ last.rule.id = 1
    /\ Len(custom) >= 2

(***************************************************************************)
(* C11: the rule resulting from setRulePermissions or                      *)
(* updateSinglePermission has the caller's priority when one is given (0   *)
(* and negative values included); otherwise the priority of the existing   *)
(* custom rule of the identity; otherwise the priority of the default rule *)
(* of the identity; otherwise 0.                                           *)
(***************************************************************************)
UpdatePriority ==
    LET identity == IdentityOf(last'.scope, last'.selector)
        old == OfIdentity(custom, identity)
    IN  (/\ last'.op \in {"setRulePermissions", "updateSinglePermission"}
         /\ calls' = calls + 1) =>
            /\ last'.rule.priority
                 = IF last'.priority # {}
                   THEN CHOOSE p \in last'.priority : TRUE
                   ELSE IF old # {}
                   THEN custom[CHOOSE i \in old : TRUE].priority
                   ELSE DefaultPriorityOf(identity)
            /\ \E i \in OfIdentity(custom', identity) :
                   custom'[i] = last'.rule

C11_UpdatePriority == [][UpdatePriority]_vars

\* an update without priority kept the priority 5 of the existing rule, which
\* no default rule has
C11_Witness ==
    /\ last.op \in {"setRulePermissions", "updateSinglePermission"}
    /\ last.priority = {}
    /\ ~last.created
    /\ last.rule.priority = 5
    /\ \A i \in 1..Len(defaults) : defaults[i].priority # 5

(***************************************************************************)
(* C12: the rule created by addCustomRule without a priority has the       *)
(* priority of the default rule of the same identity, 0 without such a     *)
(* default rule; never the priority of the custom rule it replaces.        *)
(***************************************************************************)
AddPriority ==
    LET r == last'.arg
        identity == IdentityOf(r.scope, r.selector)
    IN  (/\ last'.op = "addCustomRule"
         /\ calls' = calls + 1
         /\ r.priority = {}) =>
            /\ last'.ret.priority = DefaultPriorityOf(identity)
            /\ \A i \in OfIdentity(custom', identity) :
                   custom'[i].priority = DefaultPriorityOf(identity)

C12_AddDefaultPriority == [][AddPriority]_vars

\* a rule of priority 5 was replaced by a rule added without priority, which
\* took the priority 100 of the default rule of its identity
C12_Witness ==
    /\ last.op = "addCustomRule"
    /\ last.arg.priority = {}
    /\ last.replacedPriority = {5}
    /\ last.ret.priority = 100

\* the per-scope permission template: global read and create, not remove;
\* group and personal everything
TemplateOf(scope) ==
    [action \in PermissionAction |->
        IF scope = "global" /\ action = "remove" THEN "false" ELSE "true"]

(***************************************************************************)
(* C13: updateSinglePermission(scope, selector, priority, action, value)   *)
(* yields a rule whose permission for action is value and whose two other  *)
(* permissions are those of the existing custom rule of the identity, or   *)
(* those of the per-scope template when there was no such rule.            *)
(***************************************************************************)
SingleLeavesOthers ==
    LET identity == IdentityOf(last'.scope, last'.selector)
        old == OfIdentity(custom, identity)
        base == IF old # {} THEN custom[CHOOSE i \in old : TRUE].permissions
                ELSE TemplateOf(last'.scope)
    IN  (/\ last'.op = "updateSinglePermission"
         /\ calls' = calls + 1) =>
            \A action \in PermissionAction :
                last'.rule.permissions[action]
                    = IF action = last'.mutator.action
                      THEN last'.mutator.value
                      ELSE base[action]

C13_SingleLeavesOthers == [][SingleLeavesOthers]_vars

(***************************************************************************)
(* C14: setRulePermissions on an identity without custom rule: an action   *)
(* the caller gave no value for takes the value of the per-scope template, *)
(* and an action the caller gave takes the caller's value.                 *)
(***************************************************************************)
SetSeedsFromTemplate ==
    LET identity == IdentityOf(last'.scope, last'.selector)
        given == last'.mutator.permissions
    IN  (/\ last'.op = "setRulePermissions"
         /\ calls' = calls + 1
         /\ OfIdentity(custom, identity) = {}) =>
            \A action \in PermissionAction :
                last'.rule.permissions[action]
                    = IF given[action] = "undefined"
                      THEN TemplateOf(last'.scope)[action]
                      ELSE JsBool(Boolean(given[action]))

C14_SetSeedsFromTemplate == [][SetSeedsFromTemplate]_vars

\* the rule satisfies every filter that is provided
Satisfies(rule, scope, selector, priority) ==
    /\ scope = {} \/ scope = {rule.scope}
    /\ selector = {}
         \/ \E s \in selector :
                IdentityOf(rule.scope, s) = RuleIdentity(rule)
    /\ priority = {} \/ priority = {rule.priority}

\* positions of the custom rules the filters of the last removeRules select
Selected(rules, call) ==
    {i \in 1..Len(rules) :
        Satisfies(rules[i], call.scope, call.selector, call.priority)}

\* the list without the positions in I, the order kept
Without(rules, I) ==
    LET keep == SelectSeq([i \in 1..Len(rules) |-> i], LAMBDA i : i \notin I)
    IN  [k \in 1..Len(keep) |-> rules[keep[k]]]

(***************************************************************************)
(* C15: removeRules(scope, selector, priority, removeAll = false) with at  *)
(* least one custom rule matching the provided filters removes exactly     *)
(* one rule, a matching one of largest createdAt, returns it, and leaves   *)
(* every other custom rule in place.                                       *)
(***************************************************************************)
RemoveNewest ==
    (/\ last'.op = "removeRules"
     /\ calls' = calls + 1
     /\ ~last'.removeAll
     /\ Selected(custom, last') # {}) =>
        \E i \in Selected(custom, last') :
            /\ \A j \in Selected(custom, last') :
                   custom[j].createdAt <= custom[i].createdAt
            /\ last'.ret = <<custom[i]>>
            /\ custom' = Without(custom, {i})

RemoveAllMatching ==
    (/\ last'.op = "removeRules"
     /\ calls' = calls + 1) =>
        /\ last'.removeAll =>
               /\ custom' = Without(custom, Selected(custom, last'))
               /\ {last'.ret[k] : k \in 1..Len(last'.ret)}
                    = {custom[i] : i \in Selected(custom, last')}
               /\ Len(last'.ret) = Cardinality(Selected(custom, last'))
        /\ Selected(custom, last') = {} =>
               /\ last'.ret = <<>>
               /\ custom' = custom
               /\ file' = file

C16_RemoveAllMatching == [][RemoveAllMatching]_vars

\* the rules of priority 0 were removed and a rule of another priority stayed
C16_Witness ==
    /\ last.op = "removeRules"
    /\ last.removeAll
    /\ last.priority = {0}
    /\ last.ret # <<>>
    /\ custom # <<>>

\* reading a key of a JSON object: {} when the object lacks the key
Read(object, key) == IF key \in DOMAIN object THEN {object[key]} ELSE {}

\* every field of the stored JSON rule reads as the field of the rule
FieldsEqual(json, rule) ==
    /\ Read(json, "id") = {rule.id}
    /\ Read(json, "scope") = {rule.scope}
    /\ Read(json, "priority") = {rule.priority}
    /\ Read(json, "createdAt") = {rule.createdAt}
    /\ Read(json.selector, "type") = {rule.selector.type}
    /\ Read(json.selector, "value") = rule.selector.value
    /\ \A action \in PermissionAction :
           Read(json.permissions, action)
               = IF rule.permissions[action] = "undefined" THEN {}
                 ELSE {rule.permissions[action]}

(***************************************************************************)
(* C17: after every addCustomRule, setRulePermissions and                  *)
(* updateSinglePermission, and after every removeRules that removed        *)
(* something, the custom list in the policy file equals the custom list in *)
(* memory: the same rules in the same order, field for field.              *)
(***************************************************************************)
C17_FileMirrorsMemory ==
    (\/ last.op \in {"addCustomRule", "setRulePermissions",
                     "updateSinglePermission"}
     \/ last.op = "removeRules" /\ last.ret # <<>>) =>
        /\ file.kind = "json"
        /\ Len(file.custom) = Len(custom)
        /\ \A k \in 1..Len(custom) : FieldsEqual(file.custom[k], custom[k])

\* a rule with a permission left undefined and a selector without value was
\* added and saved next to another rule
C17_Witness ==
    /\ last.op = "addCustomRule"
    /\ last.ret.permissions.create = "undefined"
    /\ last.ret.selector.value = {}
    /\ Len(custom) >= 2
    /\ file.kind = "json"

(***************************************************************************)
(* C18: a manager constructed from the file a previous manager wrote has   *)
(* the custom rules of the previous manager (the same set of rules, every  *)
(* field equal, the order ignored) and does not rewrite the file.  Every   *)
(* file of kind json in a reachable state was written by a manager.        *)
(***************************************************************************)
RoundTrip ==
    (/\ last'.op = "createPolicyManager"
     /\ file.kind = "json") =>
        /\ {custom'[k] : k \in 1..Len(custom')}
             = {custom[k] : k \in 1..Len(custom)}
        /\ Len(custom') = Len(custom)
        /\ file' = file

C18_RoundTrip == [][RoundTrip]_vars

\* a manager was constructed from a file with two rules of this run, which
\* it holds in another order than the manager that wrote them
C18_Witness ==
    /\ last.op = "createPolicyManager"
    /\ Len(custom) >= 2
    /\ custom[1].id = 2
    /\ custom[2].id = 1
    /\ custom[1].createdAt > custom[2].createdAt
    /\ \E k \in 1..Len(custom) :
           /\ custom[k].selector.value = {}
           /\ custom[k].permissions.create = "undefined"

(***************************************************************************)
(* C19: the rules getCustomRules, getDefaultRules and listRules return are *)
(* deep copies: a write to a field, to the selector or to the permissions  *)
(* of a returned rule changes neither the later results of these getters,  *)
(* nor the decisions of isAllowed, nor the policy file.                    *)
(***************************************************************************)
ReturnedAreCopies ==
    last'.op = "mutateReturned" =>
        /\ cloneRules("custom", custom') = getCustomRules
        /\ cloneRules("defaults", defaults') = getDefaultRules
        /\ SortedClones("custom", custom') = listRules.custom
        /\ cloneRules("defaults", defaults') = listRules.defaults
        /\ \A q \in QueryInputs :
               isAllowed(custom', defaults', q.actor, q.target, q.action)
                   = isAllowed(custom, defaults, q.actor, q.target, q.action)
        /\ file' = file

C19_ReturnedAreCopies == [][ReturnedAreCopies]_vars

\* a caller wrote to a rule returned while the manager held two custom
\* rules, one of them stored by this run
C19_Witness ==
    /\ last.op = "mutateReturned"
    /\ Len(custom) >= 2
    /\ calls >= 1

(***************************************************************************)
(* C20: an isAllowed call that was suspended while add, set, update and    *)
(* remove operations ran returns the decision that an isAllowed call that  *)
(* is not interleaved gives on the custom rules as they were at one        *)
(* moment between its invocation and its completion, namely at its         *)
(* invocation; the rule it decides on is a rule of that moment or a        *)
(* default rule, never a mix of two versions of a rule.                    *)
(***************************************************************************)
C20_DecidesOnInvocationRules ==
    pending.phase = "done" =>
        /\ pending.result
             = isAllowed(pending.start, defaults, pending.actor,
                         pending.target, pending.action)
        /\ \A rule \in pending.picked :
               \/ \E i \in 1..Len(pending.start) : pending.start[i] = rule
               \/ \E i \in 1..Len(defaults) : defaults[i] = rule

\* a call completed on a custom rule after the custom rules had changed so
\* that a call invoked now gets another decision
C20_Witness ==
    /\ pending.phase = "done"
    /\ pending.list = "custom"
    /\ pending.picked # {}
    /\ custom # pending.start
    /\ isAllowed(custom, defaults, pending.actor, pending.target,
                 pending.action) # pending.result

(***************************************************************************)
(* C21: when the default rules given to createPolicyManager hold several   *)
(* rules of one identity, the one kept is the oldest (smallest createdAt)  *)
(* and the priority inherited for that identity is the priority of that    *)
(* rule.                                                                   *)
(***************************************************************************)
C21_DefaultsKeepOldest ==
    (/\ last.op = "createPolicyManager"
     /\ "defaultRules" \in DOMAIN last
     /\ ~last.threw) =>
        LET given == last.defaultRules
        IN  \A i \in 1..Len(given) :
                \E k \in 1..Len(defaults) :
                    /\ RuleIdentity(defaults[k]) = RuleIdentity(given[i])
                    /\ \E j \in 1..Len(given) : given[j] = defaults[k]
                    /\ \A j \in 1..Len(given) :
                           RuleIdentity(given[j]) = RuleIdentity(given[i])
                               => defaults[k].createdAt <= given[j].createdAt
                    /\ resolvePriority(given[i].scope, given[i].selector)
                         = defaults[k].priority

(***************************************************************************)
(* C22: the default rules are constant: no call changes what               *)
(* getDefaultRules returns, and no default rule is in the custom list of   *)
(* the policy file.                                                        *)
(***************************************************************************)
DefaultsConstant ==
    /\ cloneRules("defaults", defaults') = getDefaultRules
    /\ file'.kind = "json" =>
           \A k \in 1..Len(file'.custom), i \in 1..Len(defaults) :
               file'.custom[k].id # defaults[i].id

C22_DefaultsConstant == [][DefaultsConstant]_vars

\* two mutating calls were made and the file holds a custom rule
C22_Witness ==
    /\ calls >= 2
    /\ defaults # <<>>
    /\ file.kind = "json"
    /\ file.custom # <<>>

\* the identity of a rule of the file
JsonIdentity(json) ==
    <<json.scope, json.selector.type,
      IF "value" \in DOMAIN json.selector THEN json.selector.value ELSE "">>

(***************************************************************************)
(* C23: on construction from a file whose custom list holds several rules  *)
(* of one identity, the manager keeps of each identity exactly one rule,   *)
(* one of largest createdAt, and the file is rewritten, with the           *)
(* deduplicated list, if and only if a duplicate was dropped.              *)
(***************************************************************************)
C23_NewestKeptOnLoad ==
    (/\ last.op = "createPolicyManager"
     /\ last.found.kind = "json") =>
        LET given == last.found.custom
            Same(j, k) == JsonIdentity(given[j]) = JsonIdentity(given[k])
        IN  /\ UniqueIdentities(custom)
            /\ \A j \in 1..Len(given) :
                   \E k \in 1..Len(custom) :
                       RuleIdentity(custom[k]) = JsonIdentity(given[j])
            /\ \A k \in 1..Len(custom) :
                   \E j \in 1..Len(given) :
                       /\ FieldsEqual(given[j], custom[k])
                       /\ \A i \in 1..Len(given) :
                              Same(i, j)
                                  => given[i].createdAt <= given[j].createdAt
            /\ IF \E j, k \in 1..Len(given) : j # k /\ Same(j, k)
               THEN /\ file # last.found
                    /\ file.kind = "json"
                    /\ Len(file.custom) = Len(custom)
                    /\ \A k \in 1..Len(custom) :
                           FieldsEqual(file.custom[k], custom[k])
               ELSE file = last.found

\* the manager was constructed from a file with two rules of one identity
\* and rewrote it
C23_Witness ==
    /\ last.op = "createPolicyManager"
    /\ last.found.kind = "json"
    /\ Len(last.found.custom) > Len(custom)
    /\ file # last.found

(***************************************************************************)
(* C24: loading the rule store never throws: an absent file is created     *)
(* with an empty custom list; a file that is unparsable, lacks the custom  *)
(* key or is malformed in another way gives an empty custom rule set and   *)
(* stays as it was.                                                        *)
(***************************************************************************)
C24_LoadingNeverThrows ==
    last.op = "createPolicyManager" =>
        /\ ~last.threw
        /\ last.found.kind = "absent" =>
               /\ custom = <<>>
               /\ file.kind = "json"
               /\ file.custom = <<>>
        /\ last.found.kind \in {"garbage", "nocustom", "badcustom"} =>
               /\ custom = <<>>
               /\ file = last.found

(***************************************************************************)
(* C25: matchesSelector agrees with the reference for every selector,      *)
(* actor and target: admin is actor.isAdmin; everyone and allowlist_user   *)
(* are isAllowlistUser or isAllowlistGroup; user(v) is the actor's id      *)
(* being v; group(v) is the target's group being v; groupadmin(v) is the   *)
(* actor's predicate asked about v, or about the target's group when v is  *)
(* absent, and false when there is no group id or no predicate; owner is   *)
(* the target's owner being the actor; group_member is the actor's group   *)
(* being the target's group; owner, group and group_member are false when  *)
(* the field they need is absent; an unknown type is false.                *)
(***************************************************************************)
\* x holds an id: it is present and not the empty string
HasId(x) == \E v \in x : v # ""

ReferenceMatch(selector, actor, target) ==
    LET t == selector.type
        v == selector.value
        asked == IF v # {} THEN v ELSE target.groupId
    IN  IF t = "groupadmin"
        THEN CASE actor.isGroupAdmin.kind = "absent" \/ ~HasId(asked) -> "false"
               [] actor.isGroupAdmin.kind = "throws" -> "throw"
               [] OTHER -> JsBool(asked \subseteq actor.isGroupAdmin.groups)
        ELSE JsBool(
               \/ t = "admin" /\ actor.isAdmin
               \/ /\ t \in {"everyone", "allowlist_user"}
                  /\ (actor.isAllowlistUser \/ actor.isAllowlistGroup)
               \/ t = "user" /\ v = {toString(actor.userId)}
               \/ t = "group" /\ HasId(v) /\ v = target.groupId
               \/ /\ t = "owner"
                  /\ HasId(target.ownerId)
                  /\ target.ownerId = {toString(actor.userId)}
               \/ /\ t = "group_member"
                  /\ HasId(target.groupId)
                  /\ \E g \in actor.groupId : target.groupId = {toString(g)})

C25_MatchesReference ==
    last.op = "matchesSelector"
        => last.ret = ReferenceMatch(last.selector, last.actor, last.target)

\* a groupadmin selector without value answered from the target's group
C25_Witness ==
    /\ last.op = "matchesSelector"
    /\ last.selector = Sel("groupadmin", {})
    /\ last.target.groupId = {"100"}
    /\ last.ret = "true"

(***************************************************************************)
(* C29: an absent selector token or a bare '-' gives the default selector  *)
(* of the scope: everyone for global, user(the acting user's id) for       *)
(* personal, group(the current group's id) for group; for the group scope  *)
(* outside a group chat it gives a validation error and no selector.       *)
(***************************************************************************)
C29_DefaultSelector ==
    (last.op = "parseSelectorToken" /\ last.token \in {{}, {<<>>}, {<<"-">>}})
        => CASE last.scope = "global" ->
                  /\ last.ret.selector = {Sel("everyone", {})}
                  /\ last.ret.error = {}
             [] last.scope = "personal" ->
                  /\ last.ret.selector
                         = {Sel("user", {toString(last.context.user_id)})}
                  /\ last.ret.error = {}
             [] last.scope = "group" ->
                  IF last.context.group_id = {}
                  THEN last.ret.selector = {} /\ last.ret.error # {}
                  ELSE /\ last.ret.selector
                              = {Sel("group", {toString(g)}) :
                                     g \in last.context.group_id}
                       /\ last.ret.error = {}

\* '-' for the group scope in a private chat
C29_Witness ==
    /\ last.op = "parseSelectorToken"
    /\ last.token = {<<"-">>}
    /\ last.scope = "group"
    /\ last.context.group_id = {}
    /\ last.ret.error # {}

(***************************************************************************)
(* C30: bitsToPermissions accepts exactly the strings of three characters  *)
(* 0 or 1; the first character is read, the second create, the third       *)
(* remove, '1' meaning true.  Every other string gives a validation error  *)
(* and no permissions.                                                     *)
(***************************************************************************)
C30_BitsToPermissions ==
    last.op = "bitsToPermissions"
        => IF last.bits \in [1..3 -> {"0", "1"}]
           THEN /\ last.ret.error = {}
                /\ \E p \in last.ret.permissions :
                       /\ last.ret.permissions = {p}
                       /\ \A i \in 1..3 :
                              (p[<<"read", "create", "remove">>[i]] = "true")
                                  <=> (last.bits[i] = "1")
                       /\ \A a \in PermissionAction : p[a] \in {"true", "false"}
           ELSE last.ret.error # {} /\ last.ret.permissions = {}

\* 101 read as read and remove
C30_Witness ==
    /\ last.op = "bitsToPermissions"
    /\ last.bits = <<"1", "0", "1">>
    /\ last.ret.permissions = {Perms("true", "false", "true")}

(***************************************************************************)
(* C26: when the group-member lookup of getGroupAdminStatus fails, the     *)
(* result is false, no exception reaches the caller, and the false result  *)
(* is cached for 15 s, a shorter time than the 60 s of the result of a     *)
(* lookup that succeeded: until it expires the cached answer is returned   *)
(* without a lookup, and from then on the transport is asked again.        *)
(***************************************************************************)
\* the call of this step, with the entry the cache holds for it afterwards
CachedEntry == groupAdminCache'[<<last'.groupId, last'.userId>>]

FailedLookupIsCachedBriefly ==
    last'.op = "getGroupAdminStatus" =>
        /\ last'.ret \in {"true", "false"}
        /\ last'.info = "throw" =>
              /\ last'.ret = "false"
              /\ CachedEntry = [value |-> FALSE, expires |-> last'.now + 15000]
        /\ last'.info \in {"owner", "admin", "member", "null"} =>
              /\ last'.ret = "true" <=> last'.info \in {"owner", "admin"}
              /\ CachedEntry = [value |-> last'.ret = "true",
                                expires |-> last'.now + 60000]
        /\ last'.info = "cached" <=>
              /\ <<last'.groupId, last'.userId>> \in DOMAIN groupAdminCache
              /\ groupAdminCache[<<last'.groupId, last'.userId>>].expires
                     > last'.now
        /\ last'.info = "cached" =>
              /\ groupAdminCache' = groupAdminCache
              /\ last'.ret = "true"
                     <=> groupAdminCache[<<last'.groupId, last'.userId>>].value

C26_FailedLookupIsCachedBriefly == [][FailedLookupIsCachedBriefly]_vars

\* a lookup is made again 15 s after one that failed
C26_Witness ==
    /\ last.op = "getGroupAdminStatus"
    /\ last.info = "admin"
    /\ last.now = 15001
    /\ \E k \in DOMAIN groupAdminCache :
           k # <<last.groupId, last.userId>> /\ ~groupAdminCache[k].value
                /\ groupAdminCache[k].expires = 15001

(***************************************************************************)
(* C28: a permission command that fails validation (unknown scope word,    *)
(* unknown action word, a bit string that is not three characters 0 or 1,  *)
(* a malformed or unknown selector word, too few or surplus arguments)     *)
(* sends a message to the user and leaves the custom rules and the policy  *)
(* file unchanged.                                                         *)
(***************************************************************************)
ActionWords ==
    {"read", "view", "r", "v", "create", "save", "write", "c", "w", "s",
     "remove", "delete", "del", "d", "rm"}

ScopeOfWord(word) ==
    CASE Join(word) \in {"global", "g", "all", "public"} -> {"global"}
      [] Join(word) \in {"group", "c", "chat", "channel", "guild"} -> {"group"}
      [] Join(word) \in {"personal", "p", "user", "private", "person", "self"}
            -> {"personal"}
      [] OTHER -> {}

IsNumber(word) ==
    LET body == IF word # <<>> /\ word[1] = "-" THEN Tail(word) ELSE word
    IN  body # <<>> /\ \A i \in 1..Len(body) : body[i] \in Digits

\* the arguments without the optional priority that ends them
WithoutPriority(words) ==
    IF words # <<>> /\ IsNumber(words[Len(words)])
    THEN SubSeq(words, 1, Len(words) - 1) ELSE words

\* the selector word is malformed or unknown for the scope word next to it
BadSelector(selectorWord, scopeWord, context) ==
    \E scope \in ScopeOfWord(scopeWord) :
        parseSelectorToken(selectorWord, scope, <<>>, context).selector = {}

\* [selector] <action> <scope> [priority]
ToggleFailsValidation(args, context) ==
    LET words == WithoutPriority(args)
        n == Len(words)
    IN  \/ n < 2
        \/ n > 3
        \/ n \in {2, 3} /\ Join(words[n - 1]) \notin ActionWords
        \/ n \in {2, 3} /\ ScopeOfWord(words[n]) = {}
        \/ n = 2 /\ BadSelector({}, words[2], context)
        \/ n = 3 /\ BadSelector({words[1]}, words[3], context)

\* set <scope> <selector> <bits> [priority]
SetFailsValidation(args, context) ==
    \/ Len(args) < 4
    \/ Len(args) > 5
    \/ Len(args) = 5 /\ ~IsNumber(args[5])
    \/ Len(args) >= 4 /\ ScopeOfWord(args[2]) = {}
    \/ Len(args) >= 4 /\ args[4] \notin [1..3 -> {"0", "1"}]
    \/ Len(args) >= 4 /\ BadSelector({args[3]}, args[2], context)

FailsValidation(message) ==
    \/ /\ message.op = "toggle"
       /\ ToggleFailsValidation(message.args, message.context)
    \/ /\ message.op = "perm"
       /\ message.args # <<>>
       /\ Join(message.args[1]) = "set"
       /\ SetFailsValidation(message.args, message.context)

InvalidCommandChangesNothing ==
    (calls' = calls + 1 /\ handled'.op \in {"toggle", "perm"}
         /\ FailsValidation(handled'))
        => handled'.sent >= 1 /\ custom' = custom /\ file' = file

C28_InvalidCommandChangesNothing == [][InvalidCommandChangesNothing]_vars

(***************************************************************************)
(* C27: with policy authorization enabled, a save command inserts an image *)
(* record only when create is allowed to the sender on the scope of the    *)
(* record, remove and clear delete only records on whose scope remove is   *)
(* allowed to the sender, and use, list and lookup show only images on     *)
(* whose scope read is allowed to the sender; with it disabled no check    *)
(* refuses a command and a lookup shows every image of the name that the   *)
(* sender, the current group or the global scope holds.  The decision is   *)
(* that of isAllowed on the rules at the time of the message, the sender's *)
(* standing as a group admin being the one the bot has looked up.          *)
(***************************************************************************)
ImageOps == {"save", "use", "list", "lookup", "clear", "remove"}

RowIds(table) == {table[i].id : i \in 1..Len(table)}

Inserted ==
    {images'[i] : i \in {j \in 1..Len(images') :
                             images'[j].id \notin RowIds(images)}}

Deleted ==
    {images[i] : i \in {j \in 1..Len(images) :
                            images[j].id \notin RowIds(images')}}

\* the scope an image record lies in
ScopeOfRecord(row) ==
    CASE row.user_id = <<"global">> -> Target("global", {}, {})
      [] Len(row.user_id) = 2 -> Target("group", {}, {row.user_id[2]})
      [] OTHER -> Target("personal", {row.user_id[1]}, {})

\* napcat gives no answer: the sender's standing is what the cache holds
NoAnswer == [g \in {1, 2, 100, 200} |-> "throw"]

Permitted(row, action) ==
    isAllowed(custom, defaults,
              actorContext(handled'.message.context, groupAdminCache',
                           NoAnswer, clock),
              ScopeOfRecord(row), action) = "true"

VisibleTo(context, name) ==
    {images[i] : i \in {j \in 1..Len(images) :
        /\ images[j].name = name
        /\ \/ images[j].user_id = <<"global">>
           \/ images[j].user_id = <<toString(context.user_id)>>
           \/ \E g \in context.group_id :
                  images[j].user_id = <<"chat-", toString(g)>>}}

\* what holds of a step while authorization is enabled
WhenEnabled ==
    /\ \A row \in Inserted : handled'.op = "save" /\ Permitted(row, "create")
    /\ \A row \in Deleted :
           handled'.op \in {"clear", "remove"} /\ Permitted(row, "remove")
    /\ \A i \in 1..Len(handled'.returned) :
           Permitted(handled'.returned[i], "read")

\* what holds of a step while authorization is disabled
WhenDisabled ==
    /\ ~handled'.denied
    /\ IF /\ handled'.op = "lookup"
          /\ handled'.message.context.user_id \in allowlist.users
          /\ handled'.message.arg = {}
       THEN {handled'.returned[i] : i \in 1..Len(handled'.returned)}
                = VisibleTo(handled'.message.context,
                            handled'.message.subcommand)
       ELSE TRUE

GovernedOnlyWhenAllowed ==
    IF calls' = calls + 1 /\ handled'.op \in ImageOps
    THEN IF config.enablePolicyAuth THEN WhenEnabled ELSE WhenDisabled
    ELSE TRUE

C27_GovernedOnlyWhenAllowed == [][GovernedOnlyWhenAllowed]_vars

\* with authorization enabled a save has inserted a record and user 1 has
\* removed the image of group 100 by a remove command written in that group
C27_Witness ==
    /\ config.enablePolicyAuth
    /\ handled.op = "remove"
    /\ handled.message.context = [user_id |-> 1, group_id |-> {100}]
    /\ ~handled.denied
    /\ \A i \in 1..Len(images) : images[i].id # 2
    /\ \E i \in 1..Len(images) : images[i].id > 10

(***************************************************************************)
(* C35: getGroupAdminStatus asks napcat exactly when the latest request    *)
(* about the group and user lies 60 s or more in the past if it was        *)
(* answered, 15 s or more if it failed, or when there was none; otherwise  *)
(* it answers what that request found, and false after one that failed,    *)
(* without asking.                                                         *)
(***************************************************************************)
\* the latest request about the group and user of this step's call
LatestRequest == last.asked[<<last'.groupId, last'.userId>>]

\* a request keeps its answer for a minute, a failed one for a quarter
StillFresh ==
    /\ <<last'.groupId, last'.userId>> \in DOMAIN last.asked
    /\ last'.now - LatestRequest.at
           < (IF LatestRequest.info = "throw" THEN 15000 ELSE 60000)

AsksWhenExpired ==
    IF last'.op = "getGroupAdminStatus"
    THEN /\ last'.info = "cached" <=> StillFresh
         /\ StillFresh => (last'.ret = "true"
                          <=> LatestRequest.info \in {"owner", "admin"})
    ELSE TRUE

C35_AsksWhenExpired == [][AsksWhenExpired]_vars

\* napcat is asked again one minute after it answered that the user is an
\* admin, and now answers that the user is a member
C35_Witness ==
    /\ last.op = "getGroupAdminStatus"
    /\ last.now = 60001
    /\ last.info = "member"
    /\ last.ret = "false"
    /\ \E k \in DOMAIN groupAdminCache :
           k # <<last.groupId, last.userId>> /\ groupAdminCache[k].value

(***************************************************************************)
(* C34: updateSinglePermission and the decisions for the other actions.    *)
(***************************************************************************)
\* the actions updateSinglePermission was not called for
OtherActions == PermissionAction \ {last'.mutator.action}

\* isAllowed answers the same before and after the step
SameDecision(actor, target, action) ==
    isAllowed(custom, defaults, actor, target, action)
        = isAllowed(custom', defaults', actor, target, action)

\* the rule the call replaced decided for the actor and target before the
\* call, and the rule it stored decides after it
DecidedByUpdatedRule(actor, target) ==
    /\ ~last'.created
    /\ pickRule(custom, actor, target)
           = [kind |-> "rule",
              rule |-> custom[findIndex(last'.scope, last'.selector)]]
    /\ pickRule(custom', actor, target)
           = [kind |-> "rule", rule |-> last'.rule]

\* C34 as stated: updateSinglePermission leaves every decision for the two
\* other actions as it was, for every actor and target
OnlyActionChanges ==
    IF last'.op = "updateSinglePermission" /\ calls' = calls + 1
    THEN \A actor \in Actors, target \in Targets, action \in OtherActions :
             SameDecision(actor, target, action)
    ELSE TRUE

C34_OnlyActionChanges == [][OnlyActionChanges]_vars

\* C34 as amended: updateSinglePermission leaves the decisions for the two
\* other actions as they were for every actor and target that the rule of
\* that scope and selector decided before the call and decides after it
UpdatedRuleKeepsOtherActions ==
    IF last'.op = "updateSinglePermission" /\ calls' = calls + 1
    THEN \A actor \in Actors, target \in Targets :
             IF DecidedByUpdatedRule(actor, target)
             THEN \A action \in OtherActions :
                      SameDecision(actor, target, action)
             ELSE TRUE
    ELSE TRUE

C34_UpdatedRuleKeepsOtherActions == [][UpdatedRuleKeepsOtherActions]_vars

\* updateSinglePermission has updated a stored rule that denies another
\* action and that decides for some actor and target
C34_Witness ==
    /\ last.op = "updateSinglePermission"
    /\ ~last.created
    /\ \E action \in PermissionAction \ {last.mutator.action} :
           last.rule.permissions[action] = "false"
    /\ \E actor \in Actors, target \in Targets :
           pickRule(custom, actor, target)
               = [kind |-> "rule", rule |-> last.rule]

(***************************************************************************)
(* C36: the rule addCustomRule returns, and the selector and permissions   *)
(* passed to it, are not the objects of the stored rule: a write to one of *)
(* them changes neither getCustomRules() nor a decision of isAllowed.      *)
(***************************************************************************)
AddedNotAliased ==
    IF last'.op = "mutateAdded"
    THEN /\ cloneRules("custom", custom') = getCustomRules
         /\ \A q \in QueryInputs :
                isAllowed(custom', defaults', q.actor, q.target, q.action)
                    = isAllowed(custom, defaults, q.actor, q.target, q.action)
    ELSE TRUE

C36_AddedNotAliased == [][AddedNotAliased]_vars

(***************************************************************************)
(* C32: a sender who is not a global admin changes the custom rules only   *)
(* with a rule of scope group whose selector value is the id of the group  *)
(* the message came from, and only as owner or admin of that group.        *)
(***************************************************************************)
\* the rule changes of this step were asked for by someone who is not a
\* global admin
ChangedByNonAdmin ==
    /\ custom' # custom
    /\ handled'.context.user_id \notin config.admins

\* the rules this step stored, replaced or removed
ChangedRules ==
    LET before == {custom[k] : k \in 1..Len(custom)}
        after == {custom'[k] : k \in 1..Len(custom')}
    IN  (before \ after) \cup (after \ before)

\* napcat's answer for the sender in the group of the message, as the cache
\* holds it after the step, is owner or admin
SenderAdministersGroup ==
    \E g \in handled'.context.group_id :
        /\ CacheKey(handled'.context.user_id, g) \in DOMAIN groupAdminCache'
        /\ groupAdminCache'[CacheKey(handled'.context.user_id, g)].value

NonAdminChangesOwnGroupOnly ==
    IF ChangedByNonAdmin
    THEN /\ \A rule \in ChangedRules :
                /\ rule.scope = "group"
                /\ rule.selector.value = GroupIdOf(handled'.context)
         /\ SenderAdministersGroup
    ELSE TRUE

C32_NonAdminChangesOwnGroupOnly == [][NonAdminChangesOwnGroupOnly]_vars

\* user 1, owner of group 100 and no global admin, has removed the rules of
\* group 100 there after an attempt on another scope or group was refused
C32_Witness ==
    /\ handled.op = "perm"
    /\ handled.context = [user_id |-> 1, group_id |-> {100}]
    /\ handled.call = "removeRules"
    /\ last.op = "removeRules"
    /\ last.ret # <<>>
    /\ calls = 2

(***************************************************************************)
(* C33: a rule change by a group admin of group G who is no global admin   *)
(* changes no decision of isAllowed for a target of another group or of    *)
(* global or personal scope, whoever the actor is.                         *)
(***************************************************************************)
\* actors of another chat: user 100 and user 1, admins of group 100 or not
OtherActors ==
    {Actor(u, g, TRUE, [kind |-> "fn", groups |-> ga]) :
        u \in {1, 100}, g \in {{}, {200}}, ga \in {{}, {"100"}}}

GroupAdminChangesOwnGroupDecisionsOnly ==
    IF ChangedByNonAdmin
    THEN \A actor \in OtherActors, target \in Targets :
             IF target.groupId = GroupIdOf(handled'.context) THEN TRUE
             ELSE \A action \in PermissionAction :
                      isAllowed(custom, defaults, actor, target, action)
                          = isAllowed(custom', defaults', actor, target, action)
    ELSE TRUE

C33_GroupAdminChangesOwnGroupDecisionsOnly ==
    [][GroupAdminChangesOwnGroupDecisionsOnly]_vars

(***************************************************************************)
(* C37: after any sequence of save, remove, clear and transfer commands    *)
(* every record of the images table refers to a file that exists.          *)
(***************************************************************************)
C37_RecordsReferToFiles ==
    \A i \in 1..Len(images) : images[i].file_path \in disk.files

(***************************************************************************)
(* C38: a transfer changes no owner when the remove check fails for a      *)
(* selected image, when the destination is invalid, or when the create     *)
(* check fails for the destination; otherwise every selected image gets    *)
(* the destination as its owner, and no other image is changed.            *)
(***************************************************************************)
\* the sender's personal images of the name, newest first
OwnImages(m) ==
    NewestFirst(SelectSeq(images, LAMBDA row :
        row.name = m.name /\ row.user_id = <<toString(m.context.user_id)>>))

\* the images the message selects: all of them, or the one at the index
SelectedImages(m) ==
    IF m.arg = {} THEN {OwnImages(m)[k] : k \in 1..Len(OwnImages(m))}
    ELSE {OwnImages(m)[k] : k \in {j \in 1..Len(OwnImages(m)) :
                                      m.arg = {<<toString(j)>>}}}

\* the user_id of the destination, if the message names a valid one
Destination(m) ==
    CASE m.scope = {"global"} -> {<<"global">>}
      [] m.scope = {"group"} ->
            {<<"chat-", toString(g)>> : g \in m.context.group_id}
      [] OTHER -> {}

\* the decision of isAllowed for the sender of the message of this step
MayDo(userId, action) ==
    \/ ~config.enablePolicyAuth
    \/ Permitted([user_id |-> userId], action)

TransferGoesThrough(m) ==
    /\ PassesAllowlist(m.context)
    /\ \A row \in SelectedImages(m) : MayDo(row.user_id, "remove")
    /\ \E userId \in Destination(m) : MayDo(userId, "create")

TransferAllOrNothing ==
    IF handled'.op = "transfer" /\ calls' = calls + 1
    THEN IF TransferGoesThrough(handled'.message)
         THEN /\ Len(images') = Len(images)
              /\ \A i \in 1..Len(images) :
                     images'[i] =
                         IF images[i] \in SelectedImages(handled'.message)
                         THEN [images[i] EXCEPT !.user_id =
                                  CHOOSE userId \in
                                      Destination(handled'.message) : TRUE]
                         ELSE images[i]
         ELSE images' = images
    ELSE TRUE

C38_TransferAllOrNothing == [][TransferAllOrNothing]_vars

\* with authorization enabled user 1 has moved a personal image to group
\* 100 by the second message handled and keeps another personal image
C38_Witness ==
    /\ handled.op = "transfer"
    /\ ~handled.denied
    /\ config.enablePolicyAuth
    /\ calls = 2
    /\ \E i \in 1..Len(images) :
           /\ images[i].saved_by = <<"1">>
           /\ images[i].file_path = downloadImage(<<"1">>, "x.png")
           /\ images[i].user_id = <<"chat-", "100">>
    /\ \E i \in 1..Len(images) : images[i].user_id = <<"1">>

(***************************************************************************)
(* C31: while the allowlist is empty a message from any user is handled    *)
(* and not ignored.                                                        *)
(***************************************************************************)
EmptyAllowlistAdmitsAnyone ==
    IF calls' = calls + 1 /\ allowlist.users = {} /\ allowlist.groups = {}
    THEN ~handled'.ignored
    ELSE TRUE

C31_EmptyAllowlistAdmitsAnyone == [][EmptyAllowlistAdmitsAnyone]_vars

(***************************************************************************)
(* C39: after an allowlist command has been handled the allowlist file     *)
(* holds the allowlist that is in memory, also when the confirmation       *)
(* could not be sent.                                                      *)
(***************************************************************************)
C39_AllowlistFileMirrorsMemory == disk.allowlist = stringifyAllowlist(allowlist)

(***************************************************************************)
(* C40: after the first SIGINT the process closes the database and exits   *)
(* with code 0 at the first of the socket-close event and the expiry of    *)
(* five seconds, not before, and one of the two always comes; a second     *)
(* SIGINT before that makes it exit at once with code 1.                   *)
(***************************************************************************)
\* the process exits with code 0 only with the database closed, after a
\* SIGINT, and after the socket has closed or five seconds have passed
ExitsCleanlyOnlyAfterRace ==
    proc.exit = {0} =>
        /\ proc.db = "closed"
        /\ proc.shutdownInitiated
        /\ \/ proc.socket = "closed"
           \/ clock >= proc.initiatedAt + 5000

\* the first of the two events ends the process, and a SIGINT during the
\* wait ends it with code 1
FirstEventEndsProcess ==
    IF proc.exit = {} /\ proc.shutdownInitiated
    THEN CASE last'.op \in {"socket.close", "timeout"} ->
                  proc'.exit = {0} /\ proc'.db = "closed"
           [] last'.op = "SIGINT" -> proc'.exit = {1}
           [] OTHER -> proc'.exit = {} /\ clock' <= proc.initiatedAt + 5000
    ELSE TRUE

C40_Shutdown ==
    /\ []ExitsCleanlyOnlyAfterRace
    /\ [][FirstEventEndsProcess]_vars
    /\ (proc.shutdownInitiated ~> proc.exit # {})

\* the process has exited with code 0 five seconds after the SIGINT while
\* the socket was still open
C40_Witness ==
    /\ proc.exit = {0}
    /\ proc.socket = "open"
    /\ proc.timedOut
    /\ proc.initiatedAt > 1
    /\ clock = proc.initiatedAt + 5000

====
